---- MODULE Spec2Model ----
(***************************************************************************)
(* Room / game state machine of backup-deathmatch.                         *)
(*                                                                         *)
(* One room document (rooms/{roomCode}) and the current_room field of the  *)
(* user documents are modelled.  Every service call runs inside a          *)
(* Firestore runTransaction, so each call is one atomic action: it reads   *)
(* the document, runs its checks in source order and either writes the     *)
(* update or throws and writes nothing.  A failed call is a step that      *)
(* leaves every variable unchanged; its error is the value of the call's   *)
(* ...Error operator in that state.  Timestamps (createdAt, lastUpdate,    *)
(* finishedAt) and the always-empty items lists are left out.              *)
(*                                                                         *)
(* A nullable field is <<>> (null) or <<x>> (the value x).                 *)
(***************************************************************************)
EXTENDS Integers, Sequences, FiniteSets, Bags, TLC

VARIABLES
  exists,                 \* the room document exists
  players,                \* players: userId -> integrity
  order_players,          \* order_players: sequence of userIds
  status,                 \* "waiting" | "intro" | "playing" | "finished"
  turn,                   \* index into order_players (0-based, as in the code)
  memory_deck,            \* the full deck, fixed at creation
  current_card,           \* nullable card
  table_cards,            \* the visible cards
  cards_drawn,            \* number of deck cards drawn so far
  turn_state,             \* "draw" | "decide" | "opponent_decide"
  selected_card_index,    \* nullable 0-based index into table_cards
  current_multiplier,     \* 1 or 3
  card_initiator,         \* nullable userId
  revealed_real_memories, \* memory texts of the resolved authentic cards
  winner,                 \* nullable userId
  win_reason,             \* "" | "reached_10_points" | "opponent_defeated"
  current_room,           \* users/{id}.current_room: userId -> nullable room code
  lastOp,                 \* history: the last service call that succeeded
  atSelect,               \* history: players as the last successful selectCard read it
  firstSelect,            \* history: <<cardIndex, userId>> of the room's first successful selectCard
  inflight,               \* the transactions that have read the room and not yet committed
  started,                \* number of transactions that have entered flight
  poolSize,               \* allMemories.length: the memories of /decks/default
  resolved                \* history: the bag of the cards the match has resolved

room == <<exists, players, order_players, status, turn, memory_deck,
          current_card, table_cards, cards_drawn, turn_state,
          selected_card_index, current_multiplier, card_initiator,
          revealed_real_memories, winner, win_reason>>

vars == <<exists, players, order_players, status, turn, memory_deck,
          current_card, table_cards, cards_drawn, turn_state,
          selected_card_index, current_multiplier, card_initiator,
          revealed_real_memories, winner, win_reason, current_room, lastOp, atSelect,
          firstSelect>>

\* the bookkeeping of the transactions in flight
txnVars == <<inflight, started>>

allVars == <<vars, txnVars, poolSize, resolved>>

\* a call that resolves the card in play adds it to the resolved cards
recordResolved(happened) ==
  resolved' = IF happened THEN resolved (+) SetToBag({current_card[1]})
                          ELSE resolved

----------------------------------------------------------------------------
(* Bounds *)

MaxUsers == 3

Users == 1..MaxUsers

----------------------------------------------------------------------------
(* Nullable values *)

Null == <<>>

Some(x) == <<x>>

IsNull(v) == v = <<>>

\* GAME_CONFIG.deck.totalCards
totalCards == 15

\* at most this many transactions are in flight on the room at once
MaxInflight == 2

Slots == 1..MaxInflight

\* no transaction in flight
NoCalls == [s \in Slots |-> Null]

Val(v) == v[1]

----------------------------------------------------------------------------
(* GAME_CONFIG *)

pointValues == [authentic |-> 1, corrupted |-> -1, fatalGlitch |-> -10]

MemoryCard(m, a, v) == [memory |-> m, authenticity |-> a, value |-> v]


----------------------------------------------------------------------------
(* gameService.ts: pure helpers *)

Min(S) == CHOOSE x \in S : \A y \in S : x <= y

\* seeded fault: the table dealt from the second card of the deck on
initializeTableCards_SkipsFirst(memoryDeck) ==
  IF Len(memoryDeck) < 4
    THEN [ok |-> FALSE, tableCards |-> <<>>]
    ELSE [ok |-> TRUE, tableCards |-> SubSeq(memoryDeck, 2, 4)]

\* memoryDeck.slice(0, 3); throws when the deck has fewer than 3 cards
initializeTableCards(memoryDeck) ==
  IF Len(memoryDeck) < 3
    THEN [ok |-> FALSE, tableCards |-> <<>>]
    ELSE [ok |-> TRUE, tableCards |-> SubSeq(memoryDeck, 1, 3)]

\* newTableCards.splice(selectedCardIndex, 1), 0-based index
RemoveAt(s, i) == SubSeq(s, 1, i) \o SubSeq(s, i + 2, Len(s))

\* seeded fault: refreshTableCards removing the card without drawing a new one
refreshTableCards_NeverDraws(currentTableCards, selectedCardIndex, memoryDeck, cardsDrawn) ==
  IF selectedCardIndex < 0 \/ selectedCardIndex >= Len(currentTableCards)
    THEN [ok |-> FALSE, tableCards |-> currentTableCards, newCardsDrawn |-> cardsDrawn]
    ELSE [ok |-> TRUE,
          tableCards |-> RemoveAt(currentTableCards, selectedCardIndex),
          newCardsDrawn |-> cardsDrawn]

\* seeded fault: refreshTableCards leaving the resolved card on the table once
\* the deck is exhausted
refreshTableCards_KeepsCard(currentTableCards, selectedCardIndex, memoryDeck, cardsDrawn) ==
  IF selectedCardIndex < 0 \/ selectedCardIndex >= Len(currentTableCards)
    THEN [ok |-> FALSE, tableCards |-> currentTableCards, newCardsDrawn |-> cardsDrawn]
    ELSE IF cardsDrawn < Len(memoryDeck)
      THEN [ok |-> TRUE,
            tableCards |-> [currentTableCards EXCEPT
                              ![selectedCardIndex + 1] = memoryDeck[cardsDrawn + 1]],
            newCardsDrawn |-> cardsDrawn + 1]
      ELSE [ok |-> TRUE, tableCards |-> currentTableCards, newCardsDrawn |-> cardsDrawn]

\* seeded fault: refreshTableCards counting a draw also when the deck is exhausted
refreshTableCards_CountsAlways(currentTableCards, selectedCardIndex, memoryDeck, cardsDrawn) ==
  IF selectedCardIndex < 0 \/ selectedCardIndex >= Len(currentTableCards)
    THEN [ok |-> FALSE, tableCards |-> currentTableCards, newCardsDrawn |-> cardsDrawn]
    ELSE IF cardsDrawn < Len(memoryDeck)
      THEN [ok |-> TRUE,
            tableCards |-> [currentTableCards EXCEPT
                              ![selectedCardIndex + 1] = memoryDeck[cardsDrawn + 1]],
            newCardsDrawn |-> cardsDrawn + 1]
      ELSE [ok |-> TRUE,
            tableCards |-> RemoveAt(currentTableCards, selectedCardIndex),
            newCardsDrawn |-> cardsDrawn + 1]

\* seeded fault: refreshTableCards taking the resolved card out and putting the
\* drawn card at the end of the table
refreshTableCards_DrawsToEnd(currentTableCards, selectedCardIndex, memoryDeck, cardsDrawn) ==
  IF selectedCardIndex < 0 \/ selectedCardIndex >= Len(currentTableCards)
    THEN [ok |-> FALSE, tableCards |-> currentTableCards, newCardsDrawn |-> cardsDrawn]
    ELSE IF cardsDrawn < Len(memoryDeck)
      THEN [ok |-> TRUE,
            tableCards |-> Append(RemoveAt(currentTableCards, selectedCardIndex),
                                  memoryDeck[cardsDrawn + 1]),
            newCardsDrawn |-> cardsDrawn + 1]
      ELSE [ok |-> TRUE,
            tableCards |-> RemoveAt(currentTableCards, selectedCardIndex),
            newCardsDrawn |-> cardsDrawn]

\* seeded fault: refreshTableCards refusing only a negative index
refreshTableCards_OnlyNegative(currentTableCards, selectedCardIndex, memoryDeck, cardsDrawn) ==
  IF selectedCardIndex < 0
    THEN [ok |-> FALSE, tableCards |-> currentTableCards, newCardsDrawn |-> cardsDrawn]
    ELSE IF selectedCardIndex >= Len(currentTableCards)
      THEN [ok |-> TRUE, tableCards |-> currentTableCards, newCardsDrawn |-> cardsDrawn + 1]
    ELSE IF cardsDrawn < Len(memoryDeck)
      THEN [ok |-> TRUE,
            tableCards |-> [currentTableCards EXCEPT
                              ![selectedCardIndex + 1] = memoryDeck[cardsDrawn + 1]],
            newCardsDrawn |-> cardsDrawn + 1]
      ELSE [ok |-> TRUE,
            tableCards |-> RemoveAt(currentTableCards, selectedCardIndex),
            newCardsDrawn |-> cardsDrawn]

\* refreshTableCards(currentTableCards, selectedCardIndex, memoryDeck, cardsDrawn)
\* selectedCardIndex is 0-based; deck[cardsDrawn] is memoryDeck[cardsDrawn + 1] here
refreshTableCards(currentTableCards, selectedCardIndex, memoryDeck, cardsDrawn) ==
  IF selectedCardIndex < 0 \/ selectedCardIndex >= Len(currentTableCards)
    THEN [ok |-> FALSE, tableCards |-> currentTableCards, newCardsDrawn |-> cardsDrawn]
    ELSE IF cardsDrawn < Len(memoryDeck)
      THEN [ok |-> TRUE,
            tableCards |-> [currentTableCards EXCEPT
                              ![selectedCardIndex + 1] = memoryDeck[cardsDrawn + 1]],
            newCardsDrawn |-> cardsDrawn + 1]
      ELSE [ok |-> TRUE,
            tableCards |-> RemoveAt(currentTableCards, selectedCardIndex),
            newCardsDrawn |-> cardsDrawn]

\* canGameContinue(tableCards, memoryDeck, cardsDrawn)
canGameContinue(tableCards, memoryDeck, cardsDrawn) ==
  Len(tableCards) > 0 \/ cardsDrawn < Len(memoryDeck)

\* getRemainingCardsCount(tableCards, memoryDeck, cardsDrawn)
getRemainingCardsCount(tableCards, memoryDeck, cardsDrawn) ==
  Len(tableCards) + (Len(memoryDeck) - cardsDrawn)

\* the win threshold hard-coded in checkVictoryCondition (integrity >= 10)
WinIntegrity == 10

\* the defeat threshold hard-coded in checkVictoryCondition (integrity <= -10)
LoseIntegrity == -10

\* seeded fault: the win threshold taken as exclusive
ReachedWin_Strict(ps, orderPlayers) ==
  {i \in 1..Len(orderPlayers) : ps[orderPlayers[i]] > WinIntegrity}

\* positions (1-based) of orderPlayers whose player is at or above the win threshold
ReachedWin(ps, orderPlayers) ==
  {i \in 1..Len(orderPlayers) : ps[orderPlayers[i]] >= WinIntegrity}

\* the lose threshold of the configuration (winConditions.minIntegrity), which
\* gameService.ts never reads
minIntegrity == 0

\* positions (1-based) of orderPlayers whose player is at or below the defeat threshold
ReachedDefeat(ps, orderPlayers) ==
  {i \in 1..Len(orderPlayers) : ps[orderPlayers[i]] <= LoseIntegrity}

\* seeded fault: the defeated player itself reported as the winner
FindOther_Self(orderPlayers, playerId) == Some(playerId)

\* orderPlayers.find(id => id !== playerId): Null stands for undefined
FindOther(orderPlayers, playerId) ==
  LET others == {i \in 1..Len(orderPlayers) : orderPlayers[i] # playerId}
  IN IF others = {} THEN Null ELSE Some(orderPlayers[Min(others)])

\* seeded fault: checkVictoryCondition scanning for a defeat first
checkVictoryCondition_DefeatFirst(ps, orderPlayers) ==
  IF ReachedDefeat(ps, orderPlayers) # {}
    THEN [hasWinner |-> TRUE,
          winnerId |-> FindOther(orderPlayers,
                                 orderPlayers[Min(ReachedDefeat(ps, orderPlayers))]),
          reason |-> "opponent_defeated"]
    ELSE IF ReachedWin(ps, orderPlayers) # {}
      THEN [hasWinner |-> TRUE,
            winnerId |-> Some(orderPlayers[Min(ReachedWin(ps, orderPlayers))]),
            reason |-> "reached_10_points"]
      ELSE [hasWinner |-> FALSE, winnerId |-> Null, reason |-> ""]

\* checkVictoryCondition(players, orderPlayers); every orderPlayers entry is a key of ps
checkVictoryCondition(ps, orderPlayers) ==
  IF ReachedWin(ps, orderPlayers) # {}
    THEN [hasWinner |-> TRUE,
          winnerId |-> Some(orderPlayers[Min(ReachedWin(ps, orderPlayers))]),
          reason |-> "reached_10_points"]
    ELSE IF ReachedDefeat(ps, orderPlayers) # {}
      THEN [hasWinner |-> TRUE,
            winnerId |-> FindOther(orderPlayers,
                                   orderPlayers[Min(ReachedDefeat(ps, orderPlayers))]),
            reason |-> "opponent_defeated"]
      ELSE [hasWinner |-> FALSE, winnerId |-> Null, reason |-> ""]

----------------------------------------------------------------------------
(* gameService.ts: the five game transitions.                             *)
(* Each ...Error operator is the transaction's chain of checks in source  *)
(* order: "" when every check passes, else the error thrown first.        *)

\* roomData.order_players[roomData.turn]; Null stands for undefined
currentPlayerId ==
  IF turn >= 0 /\ turn < Len(order_players) THEN Some(order_players[turn + 1]) ELSE Null

\* seeded fault: selectCard's checks without the whose-turn check
selectCardError_AnyPlayer(cardIndex, userId) ==
  IF ~exists THEN "room_not_found"
  ELSE IF status # "playing" THEN "not_playing"
  ELSE IF turn_state # "draw" THEN "wrong_turn_state"
  ELSE IF cardIndex < 0 \/ cardIndex >= Len(table_cards) THEN "invalid_index"
  ELSE ""

\* seeded fault: selectCard's checks without the turn-state check
selectCardError_NoTurnStateCheck(cardIndex, userId) ==
  IF ~exists THEN "room_not_found"
  ELSE IF status # "playing" THEN "not_playing"
  ELSE IF currentPlayerId # Some(userId) THEN "not_your_turn"
  ELSE IF cardIndex < 0 \/ cardIndex >= Len(table_cards) THEN "invalid_index"
  ELSE ""

\* seeded fault: selectCard's checks without the status check
selectCardError_NoStatusCheck(cardIndex, userId) ==
  IF ~exists THEN "room_not_found"
  ELSE IF turn_state # "draw" THEN "wrong_turn_state"
  ELSE IF currentPlayerId # Some(userId) THEN "not_your_turn"
  ELSE IF cardIndex < 0 \/ cardIndex >= Len(table_cards) THEN "invalid_index"
  ELSE ""

selectCardError(cardIndex, userId) ==
  IF ~exists THEN "room_not_found"
  ELSE IF status # "playing" THEN "not_playing"
  ELSE IF turn_state # "draw" THEN "wrong_turn_state"
  ELSE IF currentPlayerId # Some(userId) THEN "not_your_turn"
  ELSE IF cardIndex < 0 \/ cardIndex >= Len(table_cards) THEN "invalid_index"
  ELSE ""

\* seeded fault: selectCard removing the chosen card from the table
selectCard_TakesCard(cardIndex, userId) ==
  IF selectCardError(cardIndex, userId) = ""
    THEN /\ current_card' = Some(table_cards[cardIndex + 1])
         /\ selected_card_index' = Some(cardIndex)
         /\ card_initiator' = Some(userId)
         /\ turn_state' = "decide"
         /\ current_multiplier' = 1
         /\ table_cards' = RemoveAt(table_cards, cardIndex)
         /\ UNCHANGED <<exists, players, order_players, status, turn, memory_deck,
                        cards_drawn, revealed_real_memories,
                        winner, win_reason, current_room>>
         /\ lastOp' = "selectCard"
         /\ atSelect' = players
         /\ firstSelect' = IF IsNull(firstSelect) THEN Some(<<cardIndex, userId>>)
                                               ELSE firstSelect
    ELSE UNCHANGED vars

\* seeded fault: selectCard storing the position counted from 1
selectCard_OneBasedIndex(cardIndex, userId) ==
  IF selectCardError(cardIndex, userId) = ""
    THEN /\ current_card' = Some(table_cards[cardIndex + 1])
         /\ selected_card_index' = Some(cardIndex + 1)
         /\ card_initiator' = Some(userId)
         /\ turn_state' = "decide"
         /\ current_multiplier' = 1
         /\ UNCHANGED <<exists, players, order_players, status, turn, memory_deck,
                        table_cards, cards_drawn, revealed_real_memories,
                        winner, win_reason, current_room>>
         /\ lastOp' = "selectCard"
         /\ atSelect' = players
         /\ firstSelect' = IF IsNull(firstSelect) THEN Some(<<cardIndex, userId>>)
                                               ELSE firstSelect
    ELSE UNCHANGED vars

selectCard(cardIndex, userId) ==
  IF selectCardError(cardIndex, userId) = ""
    THEN /\ current_card' = Some(table_cards[cardIndex + 1])
         /\ selected_card_index' = Some(cardIndex)
         /\ card_initiator' = Some(userId)
         /\ turn_state' = "decide"
         /\ current_multiplier' = 1
         /\ UNCHANGED <<exists, players, order_players, status, turn, memory_deck,
                        table_cards, cards_drawn, revealed_real_memories,
                        winner, win_reason, current_room>>
         /\ lastOp' = "selectCard"
         /\ atSelect' = players
         /\ firstSelect' = IF IsNull(firstSelect) THEN Some(<<cardIndex, userId>>)
                                               ELSE firstSelect
    ELSE UNCHANGED vars

\* seeded fault: the initiator's checks without the turn-state check
decideError_NoTurnStateCheck(userId) ==
  IF ~exists THEN "room_not_found"
  ELSE IF status # "playing" THEN "not_playing"
  ELSE IF card_initiator # Some(userId) THEN "not_initiator"
  ELSE IF IsNull(current_card) THEN "no_card"
  ELSE ""

\* the checks shared by claimCard and rejectCard (lines 319-343, 459-483)
decideError(userId) ==
  IF ~exists THEN "room_not_found"
  ELSE IF status # "playing" THEN "not_playing"
  ELSE IF turn_state # "decide" THEN "wrong_turn_state"
  ELSE IF card_initiator # Some(userId) THEN "not_initiator"
  ELSE IF IsNull(current_card) THEN "no_card"
  ELSE ""

\* seeded fault: the opponent's checks without the own-card check
opponentDecideError_NoOwnCardCheck(userId) ==
  IF ~exists THEN "room_not_found"
  ELSE IF status # "playing" THEN "not_playing"
  ELSE IF turn_state # "opponent_decide" THEN "wrong_turn_state"
  ELSE IF userId \notin DOMAIN players THEN "not_in_game"
  ELSE IF IsNull(current_card) THEN "no_card"
  ELSE ""

\* the checks shared by opponentClaimCard and opponentRejectBack (lines 535-564, 681-710)
opponentDecideError(userId) ==
  IF ~exists THEN "room_not_found"
  ELSE IF status # "playing" THEN "not_playing"
  ELSE IF turn_state # "opponent_decide" THEN "wrong_turn_state"
  ELSE IF card_initiator = Some(userId) THEN "own_card"
  ELSE IF userId \notin DOMAIN players THEN "not_in_game"
  ELSE IF IsNull(current_card) THEN "no_card"
  ELSE ""

\* refreshTableCards(table_cards, selected_card_index!, memory_deck, cards_drawn);
\* a null index behaves as JavaScript makes it: it compares as 0, indexes no slot
\* and splices at 0
refreshSelected ==
  IF ~IsNull(selected_card_index)
    THEN refreshTableCards(table_cards, Val(selected_card_index), memory_deck, cards_drawn)
    ELSE IF Len(table_cards) = 0
      THEN [ok |-> FALSE, tableCards |-> table_cards, newCardsDrawn |-> cards_drawn]
      ELSE IF cards_drawn < Len(memory_deck)
        THEN [ok |-> TRUE, tableCards |-> table_cards, newCardsDrawn |-> cards_drawn + 1]
        ELSE [ok |-> TRUE, tableCards |-> RemoveAt(table_cards, 0),
              newCardsDrawn |-> cards_drawn]

\* seeded fault: the points always tripled
Points_Tripled == Val(current_card).value * 3

\* seeded fault: the points without the multiplier
Points_NoMultiplier == Val(current_card).value

\* points = current_card.value * current_multiplier
Points == Val(current_card).value * current_multiplier

\* updatedPlayers[creditedId].integrity += points
CreditPlayer(creditedId) ==
  [players EXCEPT ![creditedId] = players[creditedId] + Points]

\* seeded fault: the memory pushed whatever the card's authenticity
UpdatedRevealedMemories_Always ==
  Append(revealed_real_memories, Val(current_card).memory)

\* revealed_real_memories with the memory pushed when the card is authentic
UpdatedRevealedMemories ==
  IF Val(current_card).authenticity = "authentic"
    THEN Append(revealed_real_memories, Val(current_card).memory)
    ELSE revealed_real_memories

\* seeded fault: the victory check reading the integrities before the credit
victoryCheck_Stale(creditedId) ==
  checkVictoryCondition(players, order_players)

\* victoryCheck = checkVictoryCondition(updatedPlayers, roomData.order_players):
\* the check reads the integrities after the credit
victoryCheck(creditedId) ==
  checkVictoryCondition(CreditPlayer(creditedId), order_players)

\* seeded fault: a resolving update that keeps current_card
ClearTransient_KeepsCard ==
  /\ UNCHANGED current_card
  /\ selected_card_index' = Null
  /\ current_multiplier' = 1
  /\ card_initiator' = Null

\* seeded fault: a resolving update that keeps current_multiplier
ClearTransient_KeepsMultiplier ==
  /\ current_card' = Null
  /\ selected_card_index' = Null
  /\ UNCHANGED current_multiplier
  /\ card_initiator' = Null

\* the per-card fields both branches of a resolving update reset
ClearTransient ==
  /\ current_card' = Null
  /\ selected_card_index' = Null
  /\ current_multiplier' = 1
  /\ card_initiator' = Null

\* seeded fault: the turn incremented without wrapping around
nextTurn_NoWrap == turn + 1

\* nextTurn = (roomData.turn + 1) % roomData.order_players.length
nextTurn == (turn + 1) % Len(order_players)

\* the error thrown after the checks, while computing and writing the update:
\* a TypeError when the credited user has no players entry, the invalid-index
\* error of refreshTableCards, a TypeError when checkVictoryCondition reads a
\* missing player, and the TypeError of players[winnerId].integrity (line 197)
\* when a defeat is found and orderPlayers holds no other player
resolveError(creditedId) ==
  IF creditedId \notin DOMAIN players THEN "type_error"
  ELSE IF ~refreshSelected.ok THEN "invalid_index"
  ELSE IF \E i \in 1..Len(order_players) : order_players[i] \notin DOMAIN players
    THEN "type_error"
  ELSE IF /\ victoryCheck(creditedId).hasWinner
          /\ IsNull(victoryCheck(creditedId).winnerId)
    THEN "type_error"
  ELSE ""

\* seeded fault: the continuing write naming the credited player as winner
resolveUpdate_NamesLeader(creditedId) ==
  /\ players' = CreditPlayer(creditedId)
  /\ table_cards' = refreshSelected.tableCards
  /\ cards_drawn' = refreshSelected.newCardsDrawn
  /\ ClearTransient
  /\ revealed_real_memories' = UpdatedRevealedMemories
  /\ IF victoryCheck(creditedId).hasWinner
       THEN /\ status' = "finished"
            /\ winner' = victoryCheck(creditedId).winnerId
            /\ win_reason' = victoryCheck(creditedId).reason
            /\ UNCHANGED <<turn, turn_state>>
       ELSE /\ turn' = nextTurn
            /\ turn_state' = "draw"
            /\ winner' = Some(creditedId)
            /\ UNCHANGED <<status, win_reason>>
  /\ UNCHANGED <<exists, order_players, memory_deck, current_room>>
  /\ atSelect' = <<>>
  /\ UNCHANGED firstSelect

\* the update written by a resolving transition (lines 345-412, 566-633, 717-784)
\* seeded fault: a resolution that credits the card and leaves it on the table
resolveUpdate_KeepsTable(creditedId) ==
  /\ players' = CreditPlayer(creditedId)
  /\ UNCHANGED <<table_cards, cards_drawn>>
  /\ ClearTransient
  /\ revealed_real_memories' = UpdatedRevealedMemories
  /\ IF victoryCheck(creditedId).hasWinner
       THEN /\ status' = "finished"
            /\ winner' = victoryCheck(creditedId).winnerId
            /\ win_reason' = victoryCheck(creditedId).reason
            /\ UNCHANGED <<turn, turn_state>>
       ELSE /\ turn' = nextTurn
            /\ turn_state' = "draw"
            /\ UNCHANGED <<status, winner, win_reason>>
  /\ UNCHANGED <<exists, order_players, memory_deck, current_room>>
  /\ atSelect' = <<>>
  /\ UNCHANGED firstSelect

resolveUpdate(creditedId) ==
  /\ players' = CreditPlayer(creditedId)
  /\ table_cards' = refreshSelected.tableCards
  /\ cards_drawn' = refreshSelected.newCardsDrawn
  /\ ClearTransient
  /\ revealed_real_memories' = UpdatedRevealedMemories
  /\ IF victoryCheck(creditedId).hasWinner
       THEN /\ status' = "finished"
            /\ winner' = victoryCheck(creditedId).winnerId
            /\ win_reason' = victoryCheck(creditedId).reason
            /\ UNCHANGED <<turn, turn_state>>
       ELSE /\ turn' = nextTurn
            /\ turn_state' = "draw"
            /\ UNCHANGED <<status, winner, win_reason>>
  /\ UNCHANGED <<exists, order_players, memory_deck, current_room>>
  /\ atSelect' = <<>>
  /\ UNCHANGED firstSelect

claimCardError(userId) ==
  IF decideError(userId) # "" THEN decideError(userId) ELSE resolveError(userId)

\* seeded fault: claimCard writing the credit before the update is computed,
\* so that a throw while computing the rest leaves the credit in the room
claimCard_CreditsThenThrows(userId) ==
  IF decideError(userId) # "" THEN UNCHANGED vars
  ELSE IF resolveError(userId) = ""
    THEN /\ resolveUpdate(userId)
         /\ lastOp' = "claimCard"
  ELSE IF userId \in DOMAIN players
    THEN /\ players' = CreditPlayer(userId)
         /\ lastOp' = "claimCard"
         /\ UNCHANGED <<exists, order_players, status, turn, memory_deck,
                        current_card, table_cards, cards_drawn, turn_state,
                        selected_card_index, current_multiplier, card_initiator,
                        revealed_real_memories, winner, win_reason, current_room,
                        atSelect, firstSelect>>
  ELSE UNCHANGED vars

claimCard(userId) ==
  IF claimCardError(userId) = ""
    THEN /\ resolveUpdate(userId)
         /\ lastOp' = "claimCard"
    ELSE UNCHANGED vars

\* seeded fault: rejectCard passing the turn as well
rejectCard_AdvancesTurn(userId) ==
  IF decideError(userId) = ""
    THEN /\ turn_state' = "opponent_decide"
         /\ current_multiplier' = 3
         /\ turn' = nextTurn
         /\ UNCHANGED <<exists, players, order_players, status, memory_deck,
                        current_card, table_cards, cards_drawn, selected_card_index,
                        card_initiator, revealed_real_memories, winner, win_reason,
                        current_room>>
         /\ lastOp' = "rejectCard"
         /\ UNCHANGED <<atSelect, firstSelect>>
    ELSE UNCHANGED vars

rejectCard(userId) ==
  IF decideError(userId) = ""
    THEN /\ turn_state' = "opponent_decide"
         /\ current_multiplier' = 3
         /\ UNCHANGED <<exists, players, order_players, status, turn, memory_deck,
                        current_card, table_cards, cards_drawn, selected_card_index,
                        card_initiator, revealed_real_memories, winner, win_reason,
                        current_room>>
         /\ lastOp' = "rejectCard"
         /\ UNCHANGED <<atSelect, firstSelect>>
    ELSE UNCHANGED vars

opponentClaimCardError(userId) ==
  IF opponentDecideError(userId) # "" THEN opponentDecideError(userId)
  ELSE resolveError(userId)

opponentClaimCard(userId) ==
  IF opponentClaimCardError(userId) = ""
    THEN /\ resolveUpdate(userId)
         /\ lastOp' = "opponentClaimCard"
    ELSE UNCHANGED vars

opponentRejectBackError(userId) ==
  IF opponentDecideError(userId) # "" THEN opponentDecideError(userId)
  ELSE IF IsNull(card_initiator) THEN "no_initiator"
  ELSE resolveError(Val(card_initiator))

\* seeded fault: opponentRejectBack crediting its caller
opponentRejectBack_CreditsCaller(userId) ==
  IF opponentRejectBackError(userId) = ""
    THEN /\ resolveUpdate(userId)
         /\ lastOp' = "opponentRejectBack"
    ELSE UNCHANGED vars

opponentRejectBack(userId) ==
  IF opponentRejectBackError(userId) = ""
    THEN /\ resolveUpdate(Val(card_initiator))
         /\ lastOp' = "opponentRejectBack"
    ELSE UNCHANGED vars

----------------------------------------------------------------------------
(* roomService.ts: room lifecycle *)

RoomCode == "ROOM"

\* the field values of the room document written by createRoom (lines 444-465)
NewRoom(userId, memoryDeck) ==
  /\ exists' = TRUE
  /\ players' = [u \in {userId} |-> 0]
  /\ order_players' = <<userId>>
  /\ status' = "waiting"
  /\ turn' = 0
  /\ memory_deck' = memoryDeck
  /\ current_card' = Null
  /\ table_cards' = initializeTableCards(memoryDeck).tableCards
  /\ cards_drawn' = 3
  /\ turn_state' = "draw"
  /\ selected_card_index' = Null
  /\ current_multiplier' = 1
  /\ card_initiator' = Null
  /\ revealed_real_memories' = <<>>
  /\ winner' = Null
  /\ win_reason' = ""

\* no document: every field at a fixed placeholder
NoRoom ==
  /\ exists' = FALSE
  /\ players' = <<>>
  /\ order_players' = <<>>
  /\ status' = "none"
  /\ turn' = 0
  /\ memory_deck' = <<>>
  /\ current_card' = Null
  /\ table_cards' = <<>>
  /\ cards_drawn' = 0
  /\ turn_state' = "draw"
  /\ selected_card_index' = Null
  /\ current_multiplier' = 1
  /\ card_initiator' = Null
  /\ revealed_real_memories' = <<>>
  /\ winner' = Null
  /\ win_reason' = ""

createRoomError(userId, memoryDeck) ==
  IF ~initializeTableCards(memoryDeck).ok THEN "insufficient_deck"
  ELSE IF exists THEN "room_exists"
  ELSE ""

\* createRoom(userId, roomCode) for the modelled room code; memoryDeck is the
\* deck generateGameDeck returned
createRoom(userId, memoryDeck) ==
  IF createRoomError(userId, memoryDeck) = ""
    THEN /\ NewRoom(userId, memoryDeck)
         /\ current_room' = [current_room EXCEPT ![userId] = Some(RoomCode)]
         /\ lastOp' = "createRoom"
         /\ atSelect' = <<>>
         /\ firstSelect' = Null
    ELSE UNCHANGED vars

\* seeded fault: joinRoom without the room-full check
joinRoomError_NoFullCheck(userId) ==
  IF ~exists THEN "room_not_found"
  ELSE IF userId \in DOMAIN players THEN "already_in_room"
  ELSE IF status # "waiting" THEN "already_started"
  ELSE ""

joinRoomError(userId) ==
  IF ~exists THEN "room_not_found"
  ELSE IF Cardinality(DOMAIN players) >= 2 THEN "room_full"
  ELSE IF userId \in DOMAIN players THEN "already_in_room"
  ELSE IF status # "waiting" THEN "already_started"
  ELSE ""

joinRoom(userId) ==
  IF joinRoomError(userId) = ""
    THEN /\ players' = [u \in DOMAIN players \cup {userId} |->
                          IF u = userId THEN 0 ELSE players[u]]
         /\ order_players' = Append(order_players, userId)
         /\ current_room' = [current_room EXCEPT ![userId] = Some(RoomCode)]
         /\ UNCHANGED <<exists, status, turn, memory_deck, current_card, table_cards,
                        cards_drawn, turn_state, selected_card_index,
                        current_multiplier, card_initiator, revealed_real_memories,
                        winner, win_reason>>
         /\ lastOp' = "joinRoom"
         /\ UNCHANGED <<atSelect, firstSelect>>
    ELSE UNCHANGED vars

\* roomData.order_players.filter(id => id !== userId)
FilterOut(s, userId) == SelectSeq(s, LAMBDA id : id # userId)

\* seeded fault: leaveRoom taking the user out of players only
leaveRoom_KeepsOrder(userId) ==
  /\ lastOp' = "leaveRoom"
  /\ current_room' = [current_room EXCEPT ![userId] = Null]
  /\ IF ~exists
       THEN UNCHANGED <<room, atSelect, firstSelect>>
       ELSE IF status = "waiting" /\ Len(FilterOut(order_players, userId)) = 0
         THEN NoRoom /\ atSelect' = <<>> /\ firstSelect' = Null
         ELSE /\ players' = [u \in DOMAIN players \ {userId} |-> players[u]]
              /\ status' = IF Len(FilterOut(order_players, userId)) > 0
                             THEN status ELSE "finished"
              /\ UNCHANGED <<exists, order_players, turn, memory_deck,
                             current_card, table_cards, cards_drawn, turn_state,
                             selected_card_index, current_multiplier,
                             card_initiator, revealed_real_memories, winner,
                             win_reason, atSelect, firstSelect>>

\* seeded fault: leaveRoom deleting the room whenever nobody remains
leaveRoom_AlwaysDeletes(userId) ==
  /\ lastOp' = "leaveRoom"
  /\ current_room' = [current_room EXCEPT ![userId] = Null]
  /\ IF ~exists
       THEN UNCHANGED <<room, atSelect, firstSelect>>
       ELSE IF Len(FilterOut(order_players, userId)) = 0
         THEN NoRoom /\ atSelect' = <<>> /\ firstSelect' = Null
         ELSE /\ players' = [u \in DOMAIN players \ {userId} |-> players[u]]
              /\ order_players' = FilterOut(order_players, userId)
              /\ UNCHANGED <<exists, status, turn, memory_deck, current_card,
                             table_cards, cards_drawn, turn_state,
                             selected_card_index, current_multiplier,
                             card_initiator, revealed_real_memories, winner,
                             win_reason, atSelect, firstSelect>>

\* leaveRoom never throws: with no room document it only clears current_room
leaveRoom(userId) ==
  /\ lastOp' = "leaveRoom"
  /\ current_room' = [current_room EXCEPT ![userId] = Null]
  /\ IF ~exists
       THEN UNCHANGED <<room, atSelect, firstSelect>>
       ELSE IF status = "waiting" /\ Len(FilterOut(order_players, userId)) = 0
         THEN NoRoom /\ atSelect' = <<>> /\ firstSelect' = Null
         ELSE /\ players' = [u \in DOMAIN players \ {userId} |-> players[u]]
              /\ order_players' = FilterOut(order_players, userId)
              /\ status' = IF Len(FilterOut(order_players, userId)) > 0
                             THEN status ELSE "finished"
              /\ UNCHANGED <<exists, turn, memory_deck, current_card, table_cards,
                             cards_drawn, turn_state, selected_card_index,
                             current_multiplier, card_initiator,
                             revealed_real_memories, winner, win_reason, atSelect,
                             firstSelect>>

\* seeded fault: startGame without the creator check
startGameError_AnyRequester(userId) ==
  IF ~exists THEN "room_not_found"
  ELSE IF status # "waiting" THEN "already_started"
  ELSE IF Cardinality(DOMAIN players) # 2 THEN "need_two_players"
  ELSE ""

startGameError(userId) ==
  IF ~exists THEN "room_not_found"
  ELSE IF status # "waiting" THEN "already_started"
  ELSE IF Cardinality(DOMAIN players) # 2 THEN "need_two_players"
  ELSE IF Len(order_players) = 0 \/ order_players[1] # userId THEN "not_creator"
  ELSE ""

startGame(userId) ==
  IF startGameError(userId) = ""
    THEN /\ status' = "intro"
         /\ UNCHANGED <<exists, players, order_players, turn, memory_deck,
                        current_card, table_cards, cards_drawn, turn_state,
                        selected_card_index, current_multiplier, card_initiator,
                        revealed_real_memories, winner, win_reason, current_room>>
         /\ lastOp' = "startGame"
         /\ UNCHANGED <<atSelect, firstSelect>>
    ELSE UNCHANGED vars

completeIntroError ==
  IF ~exists THEN "room_not_found"
  ELSE IF status # "intro" THEN "not_intro"
  ELSE ""

completeIntro ==
  IF completeIntroError = ""
    THEN /\ status' = "playing"
         /\ UNCHANGED <<exists, players, order_players, turn, memory_deck,
                        current_card, table_cards, cards_drawn, turn_state,
                        selected_card_index, current_multiplier, card_initiator,
                        revealed_real_memories, winner, win_reason, current_room>>
         /\ lastOp' = "completeIntro"
         /\ UNCHANGED <<atSelect, firstSelect>>
    ELSE UNCHANGED vars

----------------------------------------------------------------------------
(* Decks.  generateGameDeck builds 15 cards; the room state machine takes  *)
(* whatever memory_deck the document holds, and is explored here on decks  *)
(* of DeckSize cards built the way generateGameDeck builds a card:         *)
(* value = GAME_CONFIG.pointValues[authenticity].                          *)

DeckSize == 4

\* lines 987-996: { memory, authenticity, value: pointValues[authenticity] }
DeckOf(labels) ==
  [i \in 1..Len(labels) |-> MemoryCard(i, labels[i], pointValues[labels[i]])]

\* a repeating pattern of labels holding every authenticity
LabelCycle == <<"corrupted", "authentic", "fatalGlitch", "authentic", "corrupted">>

AuthenticLabels == [i \in 1..DeckSize |-> "authentic"]

MixedLabels == [i \in 1..DeckSize |-> LabelCycle[((i - 1) % Len(LabelCycle)) + 1]]

GameDecks == {DeckOf(AuthenticLabels), DeckOf(MixedLabels)}

\* the card indexes a client may pass: the table slots and one off each end
CardIndexes == -1..3

----------------------------------------------------------------------------
(* The room service as a state machine *)

\* no room document, no user in a room, nothing in flight
InitNoRoom ==
  /\ exists = FALSE
  /\ players = <<>>
  /\ order_players = <<>>
  /\ status = "none"
  /\ turn = 0
  /\ memory_deck = <<>>
  /\ current_card = Null
  /\ table_cards = <<>>
  /\ cards_drawn = 0
  /\ turn_state = "draw"
  /\ selected_card_index = Null
  /\ current_multiplier = 1
  /\ card_initiator = Null
  /\ revealed_real_memories = <<>>
  /\ winner = Null
  /\ win_reason = ""
  /\ current_room = [u \in Users |-> Null]
  /\ lastOp = "none"
  /\ atSelect = <<>>
  /\ firstSelect = Null
  /\ inflight = NoCalls
  /\ started = 0

\* the program with a pool of memories large enough for a deck
Init ==
  /\ InitNoRoom
  /\ poolSize = totalCards
  /\ resolved = EmptyBag

Next ==
  \/ \E u \in Users, d \in GameDecks :
       /\ createRoom(u, d)
       /\ resolved' = IF createRoomError(u, d) = "" THEN EmptyBag ELSE resolved
       /\ UNCHANGED <<txnVars, poolSize>>
  \/ \E u \in Users : joinRoom(u) /\ UNCHANGED <<txnVars, poolSize, resolved>>
  \/ \E u \in Users : leaveRoom(u) /\ UNCHANGED <<txnVars, poolSize, resolved>>
  \/ \E u \in Users : startGame(u) /\ UNCHANGED <<txnVars, poolSize, resolved>>
  \/ completeIntro /\ UNCHANGED <<txnVars, poolSize, resolved>>
  \/ \E u \in Users, i \in CardIndexes : selectCard(i, u) /\ UNCHANGED <<txnVars, poolSize, resolved>>
  \/ \E u \in Users :
       claimCard(u) /\ recordResolved(claimCardError(u) = "") /\ UNCHANGED <<txnVars, poolSize>>
  \/ \E u \in Users : rejectCard(u) /\ UNCHANGED <<txnVars, poolSize, resolved>>
  \/ \E u \in Users :
       opponentClaimCard(u) /\ recordResolved(opponentClaimCardError(u) = "") /\ UNCHANGED <<txnVars, poolSize>>
  \/ \E u \in Users :
       opponentRejectBack(u) /\ recordResolved(opponentRejectBackError(u) = "") /\ UNCHANGED <<txnVars, poolSize>>

Spec == Init /\ [][Next]_allVars

\* a player makes a move: any of the five game transitions
PlayNext ==
  \E u \in Users, i \in CardIndexes :
    /\ \/ selectCard(i, u)
       \/ claimCard(u)
       \/ rejectCard(u)
       \/ opponentClaimCard(u)
       \/ opponentRejectBack(u)
    /\ UNCHANGED <<txnVars, poolSize, resolved>>

\* the same program with players who keep playing: a move that can succeed is
\* eventually made (GamePage.tsx offers the moves of the current phase to the
\* players; leaving the room is never forced)
SpecLive == Init /\ [][Next]_allVars /\ WF_allVars(PlayNext)

----------------------------------------------------------------------------
(* checkVictoryCondition on its own: a playing room of two players built  *)
(* with arbitrary integrities, as the tests build it with createMockRoom  *)
(* and its overrides, on which the victory check is evaluated once.       *)

MaxIntegrity == 11

Integrities == (0 - MaxIntegrity)..MaxIntegrity

\* createMockRoom(player1Id, player2Id, {players: ...})
createMockRoom(player1Id, player2Id, integrity1, integrity2) ==
  /\ exists = TRUE
  /\ players = [u \in {player1Id, player2Id} |->
                  IF u = player1Id THEN integrity1 ELSE integrity2]
  /\ order_players = <<player1Id, player2Id>>
  /\ status = "playing"
  /\ turn = 0
  /\ memory_deck = DeckOf(MixedLabels)
  /\ current_card = Null
  /\ table_cards = initializeTableCards(DeckOf(MixedLabels)).tableCards
  /\ cards_drawn = 3
  /\ turn_state = "draw"
  /\ selected_card_index = Null
  /\ current_multiplier = 1
  /\ card_initiator = Null
  /\ revealed_real_memories = <<>>
  /\ winner = Null
  /\ win_reason = ""

InitVictory ==
  /\ \E p1 \in Users, p2 \in Users, i1 \in Integrities, i2 \in Integrities :
       /\ p1 # p2
       /\ createMockRoom(p1, p2, i1, i2)
  /\ current_room = [u \in Users |-> IF u \in DOMAIN players THEN Some(RoomCode) ELSE Null]
  /\ lastOp = "none"
  /\ atSelect = <<>>
  /\ firstSelect = Null
  /\ inflight = NoCalls
  /\ started = 0
  /\ poolSize = totalCards
  /\ resolved = EmptyBag

\* the victory check of a room's integrities and what the caller records of
\* its result: status finished, winner and win_reason when there is a winner
recordVictory ==
  /\ lastOp = "none"
  /\ LET victoryResult == checkVictoryCondition(players, order_players)
     IN IF victoryResult.hasWinner
          THEN /\ status' = "finished"
               /\ winner' = victoryResult.winnerId
               /\ win_reason' = victoryResult.reason
          ELSE UNCHANGED <<status, winner, win_reason>>
  /\ lastOp' = "checkVictoryCondition"
  /\ UNCHANGED <<exists, players, order_players, turn, memory_deck, current_card,
                 table_cards, cards_drawn, turn_state, selected_card_index,
                 current_multiplier, card_initiator, revealed_real_memories,
                 current_room, atSelect, firstSelect>>

NextVictory == recordVictory /\ UNCHANGED <<txnVars, poolSize, resolved>>

SpecVictory == InitVictory /\ [][NextVictory]_allVars

----------------------------------------------------------------------------
(* gameService.ts under concurrent callers: every transition is the update
   function of a Firestore runTransaction. The function reads the room with
   transaction.get, runs its checks and buffers one transaction.update; the
   commit applies the buffered update only if the room is still as it was
   read, and otherwise the function is run again on the room as it is now. *)

\* at most this many transactions enter flight in one match
MaxCalls == 4

GameOps == {"selectCard", "claimCard", "rejectCard", "opponentClaimCard",
            "opponentRejectBack"}

\* the error the update function of a transition throws on the room as read
CallError(op, userId, cardIndex) ==
  CASE op = "selectCard" -> selectCardError(cardIndex, userId)
    [] op = "claimCard" -> claimCardError(userId)
    [] op = "rejectCard" -> decideError(userId)
    [] op = "opponentClaimCard" -> opponentClaimCardError(userId)
    [] op = "opponentRejectBack" -> opponentRejectBackError(userId)
    [] op = "joinRoom" -> joinRoomError(userId)

\* transaction.update of selectCard: the fields it writes and their values
selectCardWrite(cardIndex, userId) ==
  [current_card |-> Some(table_cards[cardIndex + 1]),
   selected_card_index |-> Some(cardIndex),
   turn_state |-> "decide",
   card_initiator |-> Some(userId),
   current_multiplier |-> 1]

\* transaction.update of rejectCard
rejectCardWrite ==
  [turn_state |-> "opponent_decide", current_multiplier |-> 3]

\* transaction.update of a resolving transition: the finishing write when the
\* victory check names a winner, the continuing write otherwise
resolveWrite(creditedId) ==
  [players |-> CreditPlayer(creditedId),
   table_cards |-> refreshSelected.tableCards,
   cards_drawn |-> refreshSelected.newCardsDrawn,
   current_card |-> Null,
   selected_card_index |-> Null,
   current_multiplier |-> 1,
   card_initiator |-> Null,
   revealed_real_memories |-> UpdatedRevealedMemories]
  @@ (IF victoryCheck(creditedId).hasWinner
        THEN [status |-> "finished",
              winner |-> victoryCheck(creditedId).winnerId,
              win_reason |-> victoryCheck(creditedId).reason]
        ELSE [turn |-> nextTurn, turn_state |-> "draw"])

\* the updates of joinRoom: the field path players.<userId> adds one entry to
\* players, order_players is written whole, and the user's document gets the
\* room code
joinRoomWrite(userId) ==
  [player_added |-> userId, order_players |-> Append(order_players, userId)]

\* players after an update: written whole, or with the entry of a field path
\* players.<userId> added, or left as it is
WrittenPlayers(write) ==
  IF "players" \in DOMAIN write THEN write.players
  ELSE IF "player_added" \in DOMAIN write
    THEN [u \in DOMAIN players \cup {write.player_added} |->
            IF u = write.player_added THEN 0 ELSE players[u]]
  ELSE players

\* the update the function of a transition buffers on the room as read
CallWrite(op, userId, cardIndex) ==
  CASE op = "selectCard" -> selectCardWrite(cardIndex, userId)
    [] op = "claimCard" -> resolveWrite(userId)
    [] op = "rejectCard" -> rejectCardWrite
    [] op = "opponentClaimCard" -> resolveWrite(userId)
    [] op = "opponentRejectBack" -> resolveWrite(Val(card_initiator))
    [] op = "joinRoom" -> joinRoomWrite(userId)

\* one run of a transition's update function: the room it read and the update
\* it buffered
FunctionRun(op, userId, cardIndex) ==
  [op |-> op, userId |-> userId, cardIndex |-> cardIndex,
   read |-> room, write |-> CallWrite(op, userId, cardIndex)]

\* the value an update leaves in a field: the written one, or the current one
\* when the update does not name the field
Written(write, field, current) ==
  IF field \in DOMAIN write THEN write[field] ELSE current

\* seeded fault: a commit that does not compare the room with the one read
ReadStillCurrent_Unchecked(call) == TRUE

\* the commit's precondition: the room is still the one transaction.get returned
ReadStillCurrent(call) == call.read = room

\* a caller starts a transition: the update function runs on the room as it is;
\* when it throws the transaction is rejected and nothing is in flight
runTransaction(slot, op, userId, cardIndex) ==
  /\ IsNull(inflight[slot])
  /\ started < MaxCalls
  /\ IF CallError(op, userId, cardIndex) = ""
       THEN /\ inflight' = [inflight EXCEPT ![slot] =
                              Some(FunctionRun(op, userId, cardIndex))]
            /\ started' = started + 1
       ELSE UNCHANGED txnVars
  /\ UNCHANGED vars

\* the commit of a transaction whose read is still current: the buffered update
\* is applied to the room
commitTransaction(slot) ==
  /\ ~IsNull(inflight[slot])
  /\ LET call == Val(inflight[slot])
         write == call.write
     IN /\ ReadStillCurrent(call)
        /\ players' = WrittenPlayers(write)
        /\ order_players' = Written(write, "order_players", order_players)
        /\ current_room' =
             IF "player_added" \in DOMAIN write
               THEN [current_room EXCEPT ![write.player_added] = Some(RoomCode)]
               ELSE current_room
        /\ status' = Written(write, "status", status)
        /\ turn' = Written(write, "turn", turn)
        /\ current_card' = Written(write, "current_card", current_card)
        /\ table_cards' = Written(write, "table_cards", table_cards)
        /\ cards_drawn' = Written(write, "cards_drawn", cards_drawn)
        /\ turn_state' = Written(write, "turn_state", turn_state)
        /\ selected_card_index' =
             Written(write, "selected_card_index", selected_card_index)
        /\ current_multiplier' =
             Written(write, "current_multiplier", current_multiplier)
        /\ card_initiator' = Written(write, "card_initiator", card_initiator)
        /\ revealed_real_memories' =
             Written(write, "revealed_real_memories", revealed_real_memories)
        /\ winner' = Written(write, "winner", winner)
        /\ win_reason' = Written(write, "win_reason", win_reason)
        /\ UNCHANGED <<exists, memory_deck>>
        /\ lastOp' = call.op
        /\ atSelect' = IF call.op = "selectCard" THEN players
                       ELSE IF call.op \in {"rejectCard", "joinRoom"} THEN atSelect
                       ELSE <<>>
        /\ firstSelect' = IF call.op = "selectCard" /\ IsNull(firstSelect)
                            THEN Some(<<call.cardIndex, call.userId>>)
                            ELSE firstSelect
  /\ inflight' = [inflight EXCEPT ![slot] = Null]
  /\ UNCHANGED started

\* the commit of a transaction whose read is stale: nothing is written and the
\* update function runs again on the room as it is now
retryTransaction(slot) ==
  /\ ~IsNull(inflight[slot])
  /\ LET call == Val(inflight[slot])
     IN /\ ~ReadStillCurrent(call)
        /\ inflight' = [inflight EXCEPT ![slot] =
             IF CallError(call.op, call.userId, call.cardIndex) = ""
               THEN Some(FunctionRun(call.op, call.userId, call.cardIndex))
               ELSE Null]
  /\ UNCHANGED <<vars, started>>

\* a match in play between two users, nothing in flight
InitRace ==
  /\ \E p1 \in Users, p2 \in Users :
       /\ p1 # p2
       /\ createMockRoom(p1, p2, 0, 0)
  /\ current_room = [u \in Users |-> IF u \in DOMAIN players THEN Some(RoomCode) ELSE Null]
  /\ lastOp = "none"
  /\ atSelect = <<>>
  /\ firstSelect = Null
  /\ inflight = NoCalls
  /\ started = 0
  /\ poolSize = totalCards
  /\ resolved = EmptyBag

NextRace ==
  \/ \E slot \in Slots, op \in GameOps, u \in Users, i \in CardIndexes :
       /\ runTransaction(slot, op, u, IF op = "selectCard" THEN i ELSE 0)
       /\ UNCHANGED <<poolSize, resolved>>
  \/ \E slot \in Slots : commitTransaction(slot) /\ UNCHANGED <<poolSize, resolved>>
  \/ \E slot \in Slots : retryTransaction(slot) /\ UNCHANGED <<poolSize, resolved>>

SpecRace == InitRace /\ [][NextRace]_allVars

\* users racing to join a room: createRoom opens it, and every joinRoom is a
\* transaction that reads the room, checks it and commits or runs again
NextJoinRace ==
  \/ \E u \in Users, d \in GameDecks :
       createRoom(u, d) /\ UNCHANGED <<txnVars, poolSize, resolved>>
  \/ \E slot \in Slots, u \in Users :
       runTransaction(slot, "joinRoom", u, 0) /\ UNCHANGED <<poolSize, resolved>>
  \/ \E slot \in Slots : commitTransaction(slot) /\ UNCHANGED <<poolSize, resolved>>
  \/ \E slot \in Slots : retryTransaction(slot) /\ UNCHANGED <<poolSize, resolved>>

SpecJoinRace == Init /\ [][NextJoinRace]_allVars

----------------------------------------------------------------------------
(* testUtils.ts: the end-to-end full-game scenarios. A room in play is written
   with a controlled 15-card deck, and on every turn the player whose turn it
   is selects the card at index 0 and claims it, until checkVictoryCondition
   reports a winner. *)

\* Array(15): the number of cards of a scenario deck
ScenarioCards == 15

\* the value of a scenario card: +2 authentic, -2 corrupted
ScenarioValue == 2

\* the deck of the first scenario: authentic cards, all valued +2
authenticDeck ==
  [i \in 1..ScenarioCards |-> MemoryCard(i, "authentic", ScenarioValue)]

\* the deck of the second scenario: even (0-based) indices authentic +2, odd
\* indices corrupted -2
mixedDeck ==
  [i \in 1..ScenarioCards |->
     IF (i - 1) % 2 = 0 THEN MemoryCard(i, "authentic", ScenarioValue)
                        ELSE MemoryCard(i, "corrupted", -ScenarioValue)]

\* the turns a scenario's loop allows: while (!gameOver && turnCount < 20) in
\* the first scenario, turnCount < 10 in the second, with turnCount incremented
\* at the start of each turn
MaxTurns == IF memory_deck = authenticDeck THEN 19 ELSE 9

\* the turns played so far: every turn resolves one card
turnCount == cards_drawn - Len(table_cards)

\* createTestRoom(roomCode, player1Id, player2Id, {turn_state: 'draw', turn: 0,
\* memory_deck, table_cards: memory_deck.slice(0, 3), cards_drawn: 3})
createTestRoom(player1Id, player2Id, memoryDeck) ==
  /\ exists = TRUE
  /\ players = [u \in {player1Id, player2Id} |-> 0]
  /\ order_players = <<player1Id, player2Id>>
  /\ status = "playing"
  /\ turn = 0
  /\ memory_deck = memoryDeck
  /\ current_card = Null
  /\ table_cards = SubSeq(memoryDeck, 1, 3)
  /\ cards_drawn = 3
  /\ turn_state = "draw"
  /\ selected_card_index = Null
  /\ current_multiplier = 1
  /\ card_initiator = Null
  /\ revealed_real_memories = <<>>
  /\ winner = Null
  /\ win_reason = ""

InitE2E ==
  /\ \E p1 \in Users, p2 \in Users, d \in {authenticDeck, mixedDeck} :
       /\ p1 # p2
       /\ createTestRoom(p1, p2, d)
  /\ current_room = [u \in Users |-> Null]
  /\ lastOp = "none"
  /\ atSelect = <<>>
  /\ firstSelect = Null
  /\ inflight = NoCalls
  /\ started = 0
  /\ poolSize = totalCards
  /\ resolved = EmptyBag

\* the first half of a turn of the loop: no winner yet, turns and table cards
\* left, and the current player selects the card at index 0
e2eSelect ==
  /\ ~checkVictoryCondition(players, order_players).hasWinner
  /\ turnCount < MaxTurns
  /\ Len(table_cards) # 0
  /\ IsNull(current_card)
  /\ selectCard(0, order_players[turn + 1])
  /\ UNCHANGED <<txnVars, poolSize, resolved>>

\* the second half of the turn: the same player claims the card
e2eClaim ==
  /\ ~IsNull(current_card)
  /\ claimCard(order_players[turn + 1])
  /\ UNCHANGED <<txnVars, poolSize, resolved>>

NextE2E == e2eSelect \/ e2eClaim

SpecE2E == InitE2E /\ [][NextE2E]_allVars

----------------------------------------------------------------------------
(* gameService.tableCards.test.ts: refreshTableCards called on its own, on
   any table of deck cards, any index a caller may pass and any count of
   drawn cards. *)

\* the number of slots of a full table (initializeTableCards takes 3 cards)
TableSize == 3

\* the tables of at most TableSize cards of a deck, in any order
TablesOf(memoryDeck) ==
  UNION {[1..n -> {memoryDeck[k] : k \in 1..Len(memoryDeck)}] : n \in 0..TableSize}

\* the arguments of one call: currentTableCards, selectedCardIndex, memoryDeck
\* and cardsDrawn are held in the fields of the same names
InitRefresh ==
  /\ exists = FALSE
  /\ players = <<>>
  /\ order_players = <<>>
  /\ status = "none"
  /\ turn = 0
  /\ memory_deck \in GameDecks
  /\ current_card = Null
  /\ table_cards \in TablesOf(memory_deck)
  /\ cards_drawn \in 0..Len(memory_deck)
  /\ turn_state = "draw"
  /\ \E i \in CardIndexes : selected_card_index = Some(i)
  /\ current_multiplier = 1
  /\ card_initiator = Null
  /\ revealed_real_memories = <<>>
  /\ winner = Null
  /\ win_reason = ""
  /\ current_room = [u \in Users |-> Null]
  /\ lastOp = "none"
  /\ atSelect = <<>>
  /\ firstSelect = Null
  /\ inflight = NoCalls
  /\ started = 0
  /\ poolSize = totalCards
  /\ resolved = EmptyBag

\* one call of refreshTableCards on the arguments: what it returns replaces
\* the table and the count, and a throw is recorded as such
refreshCall ==
  /\ lastOp = "none"
  /\ LET refreshed == refreshTableCards(table_cards, Val(selected_card_index),
                                        memory_deck, cards_drawn)
     IN /\ table_cards' = refreshed.tableCards
        /\ cards_drawn' = refreshed.newCardsDrawn
        /\ lastOp' = IF refreshed.ok THEN "refreshTableCards"
                                     ELSE "refreshTableCards threw"
  /\ UNCHANGED <<exists, players, order_players, status, turn, memory_deck,
                 current_card, turn_state, selected_card_index, current_multiplier,
                 card_initiator, revealed_real_memories, winner, win_reason,
                 current_room, atSelect, firstSelect, txnVars, poolSize,
                 resolved>>

NextRefresh == refreshCall

SpecRefresh == InitRefresh /\ [][NextRefresh]_allVars

----------------------------------------------------------------------------
(* deckService: generateGameDeck with the configured deck, for every outcome
   of its random choices. The memory texts are opaque: the card at index i
   carries memory i. *)

\* GAME_CONFIG.deck.distribution
distribution == [authentic |-> 8, corrupted |-> 6, fatalGlitch |-> 1]

\* the first index (0-based) a fatal glitch may be inserted at
minFatalPosition == 7

\* the number of entries of s equal to a
Count(s, a) == Cardinality({k \in 1..Len(s) : s[k] = a})

\* the outcomes of shuffleArray(nonFatalAuthenticities): the Fisher-Yates shuffle
\* can leave the authentic and corrupted labels in any arrangement
ShuffledNonFatal ==
  {s \in [1..(distribution.authentic + distribution.corrupted) ->
            {"authentic", "corrupted"}] :
     Count(s, "authentic") = distribution.authentic}

\* the values of Math.floor(Math.random() * (totalCards - minFatalPosition))
RandomOffsets == 0..(totalCards - minFatalPosition - 1)

\* seeded fault: the position drawn from the start of the deck
randomPosition_FromStart(offset) == offset

\* randomPosition = minFatalPosition + Math.floor(Math.random() * (totalCards - minFatalPosition))
randomPosition(offset) == minFatalPosition + offset

\* array.splice(start, 0, item): item inserted at 0-based index start, or at the
\* end when start is past it
Splice(s, start, item) ==
  LET at == IF start > Len(s) THEN Len(s) ELSE start
  IN SubSeq(s, 1, at) \o <<item>> \o SubSeq(s, at + 1, Len(s))

RECURSIVE InsertFatalGlitches(_, _)
\* the loop inserting one fatalGlitch label per random offset
InsertFatalGlitches(shuffledAuthenticity, offsets) ==
  IF offsets = <<>> THEN shuffledAuthenticity
  ELSE InsertFatalGlitches(
         Splice(shuffledAuthenticity, randomPosition(Head(offsets)), "fatalGlitch"),
         Tail(offsets))

\* selectedMemories.map((memory, index) => ({memory, authenticity:
\* shuffledAuthenticity[index], value: pointValues[authenticity]}))
BuildDeck(shuffledAuthenticity) ==
  [index \in 1..totalCards |->
     MemoryCard(index, shuffledAuthenticity[index],
                pointValues[shuffledAuthenticity[index]])]

\* seeded fault: generateGameDeck without the check of the pool's size
generateGameDeckError_NoPoolCheck ==
  IF distribution.authentic + distribution.corrupted + distribution.fatalGlitch
       # totalCards
    THEN "distribution_mismatch"
  ELSE ""

\* the error generateGameDeck throws: fetchMemoriesFromFirestore refuses an
\* empty pool, and a pool of fewer than totalCards memories is refused next
generateGameDeckError ==
  IF poolSize = 0 THEN "empty_deck"
  ELSE IF poolSize < totalCards THEN "insufficient_memories"
  ELSE IF distribution.authentic + distribution.corrupted + distribution.fatalGlitch
            # totalCards
    THEN "distribution_mismatch"
  ELSE ""

\* the decks generateGameDeck can return
GeneratedDecks ==
  {BuildDeck(InsertFatalGlitches(shuffledNonFatal, offsets)) :
     shuffledNonFatal \in ShuffledNonFatal,
     offsets \in [1..distribution.fatalGlitch -> RandomOffsets]}

\* one call of generateGameDeck: the deck it returns is kept in memory_deck,
\* and a throw is recorded as such
generateGameDeck ==
  /\ lastOp = "none"
  /\ IF generateGameDeckError = ""
       THEN /\ memory_deck' \in GeneratedDecks
            /\ lastOp' = "generateGameDeck"
       ELSE /\ memory_deck' = memory_deck
            /\ lastOp' = "generateGameDeck threw"
  /\ UNCHANGED <<exists, players, order_players, status, turn, current_card,
                 table_cards, cards_drawn, turn_state, selected_card_index,
                 current_multiplier, card_initiator, revealed_real_memories,
                 winner, win_reason, current_room, atSelect, firstSelect, txnVars, poolSize,
                 resolved>>

NextDeck == generateGameDeck

SpecDeck == Init /\ [][NextDeck]_allVars

----------------------------------------------------------------------------
(* roomService createRoom as a whole, on any pool of memories: it generates
   the deck first and opens its transaction only with a deck in hand. *)

\* the pool sizes explored: from no memory to just enough for a deck
PoolSizes == 0..totalCards

\* createRoom(userId): generateGameDeck, then the room is created with the
\* deck returned; a throw of generateGameDeck is rethrown before any
\* transaction starts, and is recorded as such
createRoomWithGeneratedDeck(userId) ==
  /\ lastOp = "none"
  /\ IF generateGameDeckError = ""
       THEN \E memoryDeck \in GeneratedDecks : createRoom(userId, memoryDeck)
       ELSE /\ lastOp' = "createRoom threw"
            /\ UNCHANGED <<room, current_room, atSelect, firstSelect>>
  /\ UNCHANGED <<txnVars, poolSize, resolved>>

InitPool ==
  /\ InitNoRoom
  /\ poolSize \in PoolSizes
  /\ resolved = EmptyBag

NextPool ==
  \/ generateGameDeck
  \/ \E u \in Users : createRoomWithGeneratedDeck(u)

SpecPool == InitPool /\ [][NextPool]_allVars

----------------------------------------------------------------------------
(* Claims *)

Deciding == turn_state \in {"decide", "opponent_decide"}

\* the three transitions that resolve the selected card
ResolvingOps == {"claimCard", "opponentClaimCard", "opponentRejectBack"}

\* the room is as a successful resolving action has just left it, and no player
\* has reached the win threshold
ResolvedWithoutWin ==
  /\ exists
  /\ lastOp \in ResolvingOps
  /\ \A p \in DOMAIN players : players[p] < WinIntegrity

\* the match is finished, won by a player other than q for the defeat of q
DefeatedBy(q) ==
  /\ status = "finished"
  /\ win_reason = "opponent_defeated"
  /\ ~IsNull(winner)
  /\ Val(winner) # q

\* the match was ended by a resolving action (only those set winner)
EndedByResolution == status = "finished" /\ ~IsNull(winner)

\* C1 as stated: in every reachable state of a match, current_card is set if and
\* only if turn_state is decide or opponent_decide, the states reached when a
\* resolving action ends the match included.
C1_CardIffDeciding_Original ==
  exists => (~IsNull(current_card) <=> Deciding)

\* C1 amended: current_card is set if and only if turn_state is decide or
\* opponent_decide in every reachable state except those of a match ended by a
\* resolving action; there current_card is null while turn_state keeps the
\* value decide or opponent_decide it had when the card was resolved.
C1_CardIffDeciding ==
  exists =>
    IF EndedByResolution
      THEN IsNull(current_card) /\ Deciding
      ELSE ~IsNull(current_card) <=> Deciding

\* C1 witness: a match ended by an opponent's blind claim
C1_Witness ==
  /\ exists
  /\ status = "finished"
  /\ lastOp = "opponentClaimCard"
  /\ IsNull(current_card)
  /\ turn_state = "opponent_decide"

\* every player of the room but userId keeps the integrity it had
OthersKeepIntegrity(userId) ==
  /\ DOMAIN players' = DOMAIN players
  /\ \A p \in DOMAIN players : p # userId => players'[p] = players[p]

\* C2 (multiplier law): after selectCard by the turn player and rejectCard by
\* the same player, a successful opponentClaimCard by the other player adds
\* exactly 3 * current_card.value (negative values included) to that player's
\* integrity as it stood at the selection, and the initiator's integrity is
\* still what it was at the selection.
C2_MultiplierLaw ==
  [][\A u \in Users :
       (opponentClaimCardError(u) = "" /\ opponentClaimCard(u)) =>
         /\ u \in DOMAIN atSelect
         /\ players'[u] = atSelect[u] + 3 * Val(current_card).value
         /\ card_initiator # Some(u)
         /\ Val(card_initiator) \in DOMAIN players' =>
              players'[Val(card_initiator)] = atSelect[Val(card_initiator)]]_vars

\* C2 witness: a blind claim of a corrupted card (value -1) by the opponent has
\* just cost the opponent 3 while the other player still has 0
C2_Witness ==
  /\ lastOp = "opponentClaimCard"
  /\ Len(order_players) = 2
  /\ \E u \in DOMAIN players :
       /\ players[u] = -3
       /\ \A p \in DOMAIN players : p # u => players[p] = 0

\* C3 (selectCard): selectCard succeeds only when status is playing, turn_state
\* is draw, the caller is order_players[turn] and 0 <= index < Len(table_cards);
\* it sets current_card to table_cards[index], selected_card_index to index,
\* card_initiator to the caller, turn_state to decide and current_multiplier to
\* 1, and leaves table_cards, cards_drawn, turn and the integrities unchanged.
C3_SelectCard ==
  [][\A u \in Users, i \in CardIndexes :
       (selectCardError(i, u) = "" /\ selectCard(i, u)) =>
         /\ status = "playing"
         /\ turn_state = "draw"
         /\ turn < Len(order_players)
         /\ order_players[turn + 1] = u
         /\ 0 <= i /\ i < Len(table_cards)
         /\ current_card' = Some(table_cards[i + 1])
         /\ selected_card_index' = Some(i)
         /\ card_initiator' = Some(u)
         /\ turn_state' = "decide"
         /\ current_multiplier' = 1
         /\ UNCHANGED <<table_cards, cards_drawn, turn, players>>]_vars

\* C3 witness: a card other than the first has just been selected
C3_Witness ==
  /\ lastOp = "selectCard"
  /\ status = "playing"
  /\ turn_state = "decide"
  /\ ~IsNull(selected_card_index)
  /\ Val(selected_card_index) > 0
  /\ current_card = Some(table_cards[Val(selected_card_index) + 1])

\* C4 (claimCard): a successful claimCard adds current_card.value times
\* current_multiplier, which is the plain value because the multiplier is 1 in
\* decide, to the caller's integrity and leaves every other player's unchanged;
\* when no winner results it sets turn_state to draw and current_multiplier to 1
\* and clears current_card, selected_card_index and card_initiator.
C4_ClaimCard ==
  [][\A u \in Users :
       (claimCardError(u) = "" /\ claimCard(u)) =>
         /\ current_multiplier = 1
         /\ players'[u] = players[u] + Val(current_card).value
         /\ OthersKeepIntegrity(u)
         /\ status' # "finished" =>
              /\ turn_state' = "draw"
              /\ current_multiplier' = 1
              /\ IsNull(current_card')
              /\ IsNull(selected_card_index')
              /\ IsNull(card_initiator')]_vars

\* C4 witness: a claim of a corrupted card has just cost the claimer 1 and the
\* match goes on
C4_Witness ==
  /\ lastOp = "claimCard"
  /\ status = "playing"
  /\ turn_state = "draw"
  /\ IsNull(current_card)
  /\ \E u \in DOMAIN players : players[u] = -1

\* C5 (rejectCard frame): a successful rejectCard changes turn_state, to
\* opponent_decide, and current_multiplier, to 3, and no other field of the room:
\* integrities, turn, current_card, selected_card_index, card_initiator,
\* table_cards and cards_drawn are what they were.
C5_RejectCardFrame ==
  [][\A u \in Users :
       (decideError(u) = "" /\ rejectCard(u)) =>
         /\ turn_state' = "opponent_decide"
         /\ current_multiplier' = 3
         /\ UNCHANGED <<exists, players, order_players, status, turn, memory_deck,
                        current_card, table_cards, cards_drawn, selected_card_index,
                        card_initiator, revealed_real_memories, winner,
                        win_reason>>]_vars

\* C5 witness: the turn player has just rejected the selected card
C5_Witness ==
  /\ lastOp = "rejectCard"
  /\ status = "playing"
  /\ turn_state = "opponent_decide"
  /\ current_multiplier = 3
  /\ card_initiator = currentPlayerId
  /\ ~IsNull(current_card)

\* C6 (opponentRejectBack): a successful opponentRejectBack adds
\* current_card.value * 3 to the integrity of card_initiator, the player who
\* selected the card, and leaves the caller's integrity unchanged.
C6_RejectBack ==
  [][\A u \in Users :
       (opponentRejectBackError(u) = "" /\ opponentRejectBack(u)) =>
         /\ ~IsNull(card_initiator)
         /\ Val(card_initiator) # u
         /\ players'[Val(card_initiator)] =
              players[Val(card_initiator)] + 3 * Val(current_card).value
         /\ players'[u] = players[u]]_vars

\* C6 witness: a reject-back of an authentic card has just given the initiator
\* 3 while the opponent who rejected back still has 0
C6_Witness ==
  /\ lastOp = "opponentRejectBack"
  /\ Len(order_players) = 2
  /\ \E u \in DOMAIN players :
       /\ players[u] = 3
       /\ \A p \in DOMAIN players : p # u => players[p] = 0

\* userId may not resolve the rejected card: it selected the card or it is not
\* a player of the room
NotTheOpponent(userId) ==
  card_initiator = Some(userId) \/ userId \notin DOMAIN players

\* C7 (opponent identity): while a playing room is in opponent_decide,
\* opponentClaimCard and opponentRejectBack called by card_initiator or by a
\* user who is not in players fail and leave the room document unchanged.
C7_OpponentOnly ==
  [][\A u \in Users :
       (exists /\ status = "playing" /\ turn_state = "opponent_decide"
          /\ NotTheOpponent(u)) =>
         /\ opponentClaimCardError(u) # ""
         /\ opponentRejectBackError(u) # ""
         /\ (opponentClaimCard(u) \/ opponentRejectBack(u)) => UNCHANGED room]_vars

\* C7 witness: in opponent_decide the initiator is refused for its own card and
\* a user outside the room is refused as not in the game
C7_Witness ==
  /\ exists
  /\ status = "playing"
  /\ turn_state = "opponent_decide"
  /\ \E u \in Users : /\ card_initiator = Some(u)
                      /\ opponentClaimCardError(u) = "own_card"
                      /\ opponentRejectBackError(u) = "own_card"
  /\ \E u \in Users : /\ u \notin DOMAIN players
                      /\ opponentClaimCardError(u) = "not_in_game"
                      /\ opponentRejectBackError(u) = "not_in_game"

\* a call of one of the five game transitions
GameCall(cardIndex, userId) ==
  \/ selectCard(cardIndex, userId)
  \/ claimCard(userId)
  \/ rejectCard(userId)
  \/ opponentClaimCard(userId)
  \/ opponentRejectBack(userId)

\* each of the five game transitions throws for this caller and index
EveryGameCallFails(cardIndex, userId) ==
  /\ selectCardError(cardIndex, userId) # ""
  /\ claimCardError(userId) # ""
  /\ decideError(userId) # ""
  /\ opponentClaimCardError(userId) # ""
  /\ opponentRejectBackError(userId) # ""

\* C8 (halt at finished): whenever status is not playing, and so once a match is
\* finished, every call of selectCard, claimCard, rejectCard, opponentClaimCard
\* and opponentRejectBack fails and leaves the room document unchanged; a
\* finished room stays finished, its winner and win_reason never change and no
\* player's integrity changes (a player who leaves is removed with its entry,
\* the players who stay keep their integrity).
C8_HaltsAtFinished ==
  [][status # "playing" =>
       /\ \A u \in Users, i \in CardIndexes :
            /\ EveryGameCallFails(i, u)
            /\ GameCall(i, u) => UNCHANGED room
       /\ status = "finished" =>
            /\ exists'
            /\ status' = "finished"
            /\ winner' = winner
            /\ win_reason' = win_reason
            /\ DOMAIN players' \subseteq DOMAIN players
            /\ \A p \in DOMAIN players' : players'[p] = players[p]]_vars

\* C8 witness: a match ended by a resolving action, both players still in the
\* room, where the calls are refused because the room is not playing
C8_Witness ==
  /\ exists
  /\ status = "finished"
  /\ ~IsNull(winner)
  /\ Len(order_players) = 2
  /\ \E u \in DOMAIN players :
       /\ selectCardError(0, u) = "not_playing"
       /\ claimCardError(u) = "not_playing"
       /\ opponentClaimCardError(u) = "not_playing"
       /\ opponentRejectBackError(u) = "not_playing"

\* the write ends the match with userId as the winner by points
WinsInThisWrite(userId) ==
  /\ status' = "finished"
  /\ winner' = Some(userId)
  /\ win_reason' = "reached_10_points"

\* C9 (victory on the post-mutation state): a successful claimCard,
\* opponentClaimCard or opponentRejectBack that brings the credited player's
\* integrity to 10 or more sets status to finished and winner to that player in
\* the same write, also when the credited player is not the player whose turn
\* it is.
C9_VictoryInSameWrite ==
  [][\A u \in Users :
       /\ (claimCardError(u) = "" /\ claimCard(u) /\ players'[u] >= WinIntegrity)
            => WinsInThisWrite(u)
       /\ (opponentClaimCardError(u) = "" /\ opponentClaimCard(u)
             /\ players'[u] >= WinIntegrity)
            => WinsInThisWrite(u)
       /\ (opponentRejectBackError(u) = "" /\ opponentRejectBack(u)
             /\ players'[Val(card_initiator)] >= WinIntegrity)
            => WinsInThisWrite(Val(card_initiator))]_vars

\* C9 witness: an opponent's blind claim has just ended the match in favour of
\* the opponent, who crossed 10 from below and whose turn it is not
C9_Witness ==
  /\ lastOp = "opponentClaimCard"
  /\ status = "finished"
  /\ win_reason = "reached_10_points"
  /\ ~IsNull(winner)
  /\ Val(winner) \in DOMAIN players
  /\ players[Val(winner)] >= WinIntegrity
  /\ players[Val(winner)] - 3 < WinIntegrity
  /\ currentPlayerId # winner

\* some player is at or above the win threshold while the other player is at or
\* below the defeat threshold
BothThresholdsCrossed ==
  \E p \in DOMAIN players, q \in DOMAIN players :
    /\ p # q
    /\ players[p] >= WinIntegrity
    /\ players[q] <= LoseIntegrity

\* C10 (victory priority): evaluated on integrities where one player is at or
\* above 10 and the other at or below the defeat threshold,
\* checkVictoryCondition reports the player at or above 10 as the winner, with
\* the reason reached_10_points and never opponent_defeated.
C10_VictoryPriority ==
  (lastOp = "checkVictoryCondition" /\ BothThresholdsCrossed) =>
    /\ status = "finished"
    /\ win_reason = "reached_10_points"
    /\ ~IsNull(winner)
    /\ players[Val(winner)] >= WinIntegrity

\* C10 witness: the check has been evaluated with the second player in order
\* past the win threshold and the first past the defeat threshold
C10_Witness ==
  /\ lastOp = "checkVictoryCondition"
  /\ BothThresholdsCrossed
  /\ players[order_players[1]] <= LoseIntegrity
  /\ winner = Some(order_players[2])

C12_LoseAtMinIntegrity_Original ==
  ResolvedWithoutWin =>
    \A q \in DOMAIN players : players[q] <= minIntegrity => DefeatedBy(q)

\* the lose condition as checkVictoryCondition has it: after a resolving action
\* in which no player reached 10 the match is finished, with the other player
\* as winner, exactly when some player's integrity is at or below -10
LoseAtMinusTen ==
  ResolvedWithoutWin =>
    IF \E q \in DOMAIN players : players[q] <= LoseIntegrity
      THEN \E q \in DOMAIN players : players[q] <= LoseIntegrity /\ DefeatedBy(q)
      ELSE status = "playing" /\ IsNull(winner) /\ win_reason = ""

\* C13 (turn advance): every successful claimCard, opponentClaimCard and
\* opponentRejectBack that does not end the match sets turn to
\* (turn + 1) mod Len(order_players), whoever resolved the card and whoever
\* received the points; a successful selectCard or rejectCard leaves turn as it
\* was.
C13_TurnAdvance ==
  [][/\ (lastOp' \in ResolvingOps /\ status' # "finished") =>
          turn' = (turn + 1) % Len(order_players)
     /\ lastOp' \in {"selectCard", "rejectCard"} => turn' = turn]_vars

\* C13 witness: with two players in the room, a reject-back that credited the
\* initiator has just wrapped the turn from the second player to the first
C13_Witness ==
  /\ lastOp = "opponentRejectBack"
  /\ status = "playing"
  /\ Len(order_players) = 2
  /\ turn = 0
  /\ turn_state = "draw"

\* C14 (turn is an index): in every reachable state of a room, after any
\* sequence of join, leave, start, intro and game transitions, turn is a valid
\* index into order_players: 0 <= turn < Len(order_players).
C14_TurnIsValidIndex ==
  exists => (0 <= turn /\ turn < Len(order_players))

\* a playing room whose turn points past the only player left: leaveRoom
\* removed the player whose turn it was and did not touch turn
TurnPastLastPlayer ==
  /\ exists
  /\ status = "playing"
  /\ Len(order_players) = 1
  /\ turn = 1
  /\ \A u \in Users, i \in CardIndexes : selectCardError(i, u) # ""

\* the multiplier that goes with the turn state
MultiplierOf(turnState) == IF turnState = "opponent_decide" THEN 3 ELSE 1

\* C15 as stated: in every reachable state current_multiplier is 1 when
\* turn_state is draw or decide and 3 when turn_state is opponent_decide.
C15_MultiplierByTurnState_Original ==
  exists => current_multiplier = MultiplierOf(turn_state)

\* C15 amended: current_multiplier is 1 when turn_state is draw or decide and 3
\* when turn_state is opponent_decide, in every reachable state except those of
\* a match ended by a resolving action: there current_multiplier is 1 whatever
\* turn_state is, so a match ended by opponentClaimCard or opponentRejectBack
\* keeps turn_state opponent_decide with current_multiplier 1.
C15_MultiplierByTurnState ==
  exists =>
    IF EndedByResolution
      THEN current_multiplier = 1
      ELSE current_multiplier = MultiplierOf(turn_state)

\* C15 witness: a match ended by a reject-back, still in opponent_decide, with
\* the multiplier back to 1
C15_Witness ==
  /\ exists
  /\ status = "finished"
  /\ lastOp = "opponentRejectBack"
  /\ turn_state = "opponent_decide"
  /\ current_multiplier = 1

\* the number of deck cards not drawn yet
Supply == Len(memory_deck) - cards_drawn

\* the step is a successful resolving action on a room
Resolves == exists /\ exists' /\ lastOp' \in ResolvingOps

\* C16 (table size): in every reachable state table_cards has at most 3 cards;
\* its length decreases only in a resolving action performed when the deck is
\* exhausted (cards_drawn = Len(memory_deck)), and while undrawn cards remain
\* the table keeps its size.
C16_TableSize ==
  [][(exists /\ exists') =>
       /\ Len(table_cards) <= 3
       /\ Len(table_cards') <= 3
       /\ Len(table_cards') < Len(table_cards) =>
            (lastOp' \in ResolvingOps /\ cards_drawn = Len(memory_deck))
       /\ cards_drawn < Len(memory_deck) =>
            Len(table_cards') = Len(table_cards)]_vars

\* C16 witness: a resolving action on an exhausted deck has just left two cards
\* on the table
C16_Witness ==
  /\ exists
  /\ lastOp \in ResolvingOps
  /\ cards_drawn = Len(memory_deck)
  /\ Len(table_cards) = 2

\* C17 as stated: after a successful claimCard, opponentClaimCard or
\* opponentRejectBack, Len(table_cards) equals min(3, remaining supply +
\* previous table size), the remaining supply being the number of undrawn deck
\* cards before the action.
C17_TableAfterResolve_Original ==
  [][Resolves =>
       Len(table_cards') = Min({3, Supply + Len(table_cards)})]_vars

\* C17 amended: after a successful claimCard, opponentClaimCard or
\* opponentRejectBack, Len(table_cards) equals min(3, remaining supply +
\* previous table size - 1): the resolved card leaves the table, so the table
\* keeps its size while an undrawn card remained and has one card less once
\* the deck is exhausted.
C17_TableAfterResolve ==
  [][Resolves =>
       /\ Len(table_cards') = Min({3, Supply + Len(table_cards) - 1})
       /\ Len(table_cards') = IF Supply > 0 THEN Len(table_cards)
                                            ELSE Len(table_cards) - 1]_vars

\* C17 witness: the last card of the table has just been resolved on an
\* exhausted deck, leaving the table empty
C17_Witness ==
  /\ exists
  /\ lastOp \in ResolvingOps
  /\ Supply = 0
  /\ Len(table_cards) = 0

\* C18 (cards drawn): cards_drawn never decreases and never exceeds
\* Len(memory_deck); it changes only in a resolving action, by exactly 1, and
\* only when an undrawn card was available before the action.
C18_CardsDrawn ==
  [][(exists /\ exists') =>
       /\ cards_drawn' >= cards_drawn
       /\ cards_drawn <= Len(memory_deck)
       /\ cards_drawn' <= Len(memory_deck')
       /\ cards_drawn' # cards_drawn =>
            /\ lastOp' \in ResolvingOps
            /\ cards_drawn' = cards_drawn + 1
            /\ cards_drawn < Len(memory_deck)]_vars

\* C18 witness: the last deck card has just been drawn by a resolving action
C18_Witness ==
  /\ exists
  /\ lastOp \in ResolvingOps
  /\ cards_drawn = Len(memory_deck)
  /\ Len(table_cards) = 3
  /\ \E i \in 1..3 : table_cards[i] = memory_deck[Len(memory_deck)]

\* the room is as a successful claimCard that did not end the match left it
ClaimedAndPlaying == exists /\ lastOp = "claimCard" /\ status = "playing"

\* C19 (double claim): a second claimCard by the same player, arriving after
\* the first one has advanced the room to draw, fails with the validation error
\* of the turn-state check and leaves the room document exactly as the first
\* call left it, so the points are not applied twice.  Stated for every caller,
\* the player who claimed included.
C19_SecondClaimFails ==
  [][ClaimedAndPlaying =>
       /\ turn_state = "draw"
       /\ \A u \in Users :
            /\ claimCardError(u) = "wrong_turn_state"
            /\ claimCard(u) => UNCHANGED room]_vars

\* C19 witness: in a room of two players the player before the current one has
\* just claimed an authentic card, holds its single point, and is refused a
\* second claim
C19_Witness ==
  /\ ClaimedAndPlaying
  /\ Len(order_players) = 2
  /\ turn \in {0, 1}
  /\ players[order_players[2 - turn]] = 1
  /\ players[order_players[turn + 1]] = 0
  /\ claimCardError(order_players[2 - turn]) = "wrong_turn_state"

\* C20 as stated: a re-delivered copy of a transition call that already
\* succeeded never takes effect a second time, however late it is delivered and
\* whatever other transitions ran in between: it fails on the precondition
\* checks.  Checked on the room's first successful selectCard call: in every
\* later state of the room a copy of that call is refused.
C20_RedeliveryNeverApplies_Original ==
  (exists /\ ~IsNull(firstSelect)) =>
    selectCardError(Val(firstSelect)[1], Val(firstSelect)[2]) # ""

\* C20 amended: a re-delivered copy of a transition call that already succeeded
\* fails on the precondition checks and leaves the room document unchanged as
\* long as no other call has succeeded since, that is in the state the call
\* left; the calls keep no record of what was delivered, so a copy delivered
\* later, once the match is again in the phase and turn the call requires, is
\* accepted as a new call.  Stated for every caller and index, the ones of the
\* call that succeeded included.
C20_ImmediateRedeliveryFails ==
  [][exists =>
       /\ lastOp = "selectCard" =>
            \A u \in Users, i \in CardIndexes :
              /\ selectCardError(i, u) # ""
              /\ selectCard(i, u) => UNCHANGED room
       /\ lastOp = "claimCard" =>
            \A u \in Users :
              /\ claimCardError(u) # ""
              /\ claimCard(u) => UNCHANGED room
       /\ lastOp = "rejectCard" =>
            \A u \in Users :
              /\ decideError(u) # ""
              /\ rejectCard(u) => UNCHANGED room
       /\ lastOp = "opponentClaimCard" =>
            \A u \in Users :
              /\ opponentClaimCardError(u) # ""
              /\ opponentClaimCard(u) => UNCHANGED room
       /\ lastOp = "opponentRejectBack" =>
            \A u \in Users :
              /\ opponentRejectBackError(u) # ""
              /\ opponentRejectBack(u) => UNCHANGED room]_vars

\* C20 witness: the room's first selectCard has just succeeded and a copy of
\* it, same index and same caller, is refused by the turn-state check
C20_Witness ==
  /\ exists
  /\ lastOp = "selectCard"
  /\ ~IsNull(firstSelect)
  /\ selected_card_index = Some(Val(firstSelect)[1])
  /\ card_initiator = Some(Val(firstSelect)[2])
  /\ selectCardError(Val(firstSelect)[1], Val(firstSelect)[2]) = "wrong_turn_state"


\* a transaction in flight on this slot read a room that has since been written
StaleInFlight(slot, op) ==
  /\ ~IsNull(inflight[slot])
  /\ Val(inflight[slot]).op = op
  /\ Val(inflight[slot]).read # room

\* the step takes the selected card off the room and changes the integrity of
\* exactly one player, by the card's points
ResolvesOnceForOne ==
  /\ IsNull(current_card')
  /\ \E u \in DOMAIN players :
       /\ players'[u] = players[u] + Points
       /\ \A v \in DOMAIN players \ {u} : players'[v] = players[v]

\* C21 (concurrency): transitions racing on one match (claimCard against
\* rejectCard, opponentClaimCard against opponentRejectBack, two selectCard)
\* give the result of running them one after the other: every step that
\* changes the room is one whole transition applied to the room as the previous
\* step left it; a selected card leaves the room only by being resolved, with
\* its points going to exactly one player, and no integrity changes otherwise.
C21_Serializable ==
  [][ /\ \/ vars' = vars
         \/ \E u \in Users, i \in CardIndexes : GameCall(i, u)
      /\ (~IsNull(current_card) /\ current_card' # current_card) => ResolvesOnceForOne
      /\ players' # players => ~IsNull(current_card) /\ IsNull(current_card')
    ]_allVars

\* the opponent's two decisions raced: opponentClaimCard committed and resolved
\* the card while an opponentRejectBack that read the same room is in flight
C21_Witness ==
  /\ lastOp = "opponentClaimCard"
  /\ IsNull(current_card)
  /\ \E slot \in Slots : StaleInFlight(slot, "opponentRejectBack")

\* there is no room, or the match is not in play, or not in this turn phase
WrongPhase(phase) ==
  ~exists \/ status # "playing" \/ turn_state # phase

\* selectCard by this user with this index is refused: wrong phase, not the
\* user's turn, or no such slot on the table
SelectFails(cardIndex, userId) ==
  \/ WrongPhase("draw")
  \/ turn < 0 \/ turn >= Len(order_players)
  \/ order_players[turn + 1] # userId
  \/ cardIndex < 0 \/ cardIndex >= Len(table_cards)

\* the card cannot be resolved in favour of this user: the update throws while
\* it is computed
ResolveThrows(creditedId) == resolveError(creditedId) # ""

\* a decision of the initiator is refused for this user
DecideFails(userId) ==
  \/ WrongPhase("decide")
  \/ card_initiator # Some(userId)
  \/ IsNull(current_card)

\* a decision of the opponent is refused for this user
OpponentDecideFails(userId) ==
  \/ WrongPhase("opponent_decide")
  \/ card_initiator = Some(userId)
  \/ userId \notin DOMAIN players
  \/ IsNull(current_card)

\* C22 (error handling): no transition is partially applied. A call of any of
\* the five game transitions that fails (no room, wrong phase, wrong turn, wrong
\* player, invalid index, no card, or a throw while the update is computed)
\* leaves the room exactly as it was: no step that changes the room is a step
\* of a call that fails.
C22_NoPartialWrite ==
  [][room' # room =>
       \A u \in Users :
         /\ \A i \in CardIndexes : SelectFails(i, u) => ~selectCard(i, u)
         /\ (DecideFails(u) \/ ResolveThrows(u)) => ~claimCard(u)
         /\ DecideFails(u) => ~rejectCard(u)
         /\ (OpponentDecideFails(u) \/ ResolveThrows(u)) => ~opponentClaimCard(u)
         /\ (OpponentDecideFails(u) \/ IsNull(card_initiator)
               \/ ResolveThrows(Val(card_initiator)))
              => ~opponentRejectBack(u)
    ]_vars

\* a claim that passes its checks and throws while the update is computed, in
\* a match where other calls are refused for the phase, the turn and the index
C22_Witness ==
  /\ exists
  /\ status = "playing"
  /\ turn_state = "decide"
  /\ \E u \in DOMAIN players :
       /\ ~DecideFails(u)
       /\ ResolveThrows(u)
       /\ claimCardError(u) # ""
       /\ selectCardError(0, u) = "wrong_turn_state"
       /\ opponentClaimCardError(u) = "wrong_turn_state"
  /\ \E v \in Users : decideError(v) = "not_initiator"

\* the match is in play with nothing left to select: no card on the table and
\* none left in the deck
SupplyRanOut ==
  /\ exists
  /\ status = "playing"
  /\ table_cards = <<>>
  /\ cards_drawn = Len(memory_deck)

\* C23 (termination): the match terminates when the supply runs out: every
\* playing state with an empty table and cards_drawn = Len(memory_deck) is
\* followed by a state with status = "finished".
C23_TerminatesOnExhaustion ==
  SupplyRanOut ~> (status = "finished")

\* the scenario's loop has a next move to make
E2ECanMove ==
  \/ ENABLED e2eSelect
  \/ ENABLED e2eClaim

\* C24 (scenario A): with the 15-card deck of authentic +2 cards, both players
\* at 0 and every player selecting index 0 and claiming on their turn, the
\* match finishes on the first player's fifth claim (the ninth of the match):
\* until then it is in play and the loop goes on, and it ends with the first
\* player at 10, status finished, winner the first player and the reason
\* reached_10_points.
C24_ScenarioA ==
  memory_deck = authenticDeck =>
    LET first == order_players[1]
        second == order_players[2]
        claims == Len(revealed_real_memories)
    IN /\ players[first] = ScenarioValue * ((claims + 1) \div 2)
       /\ players[second] = ScenarioValue * (claims \div 2)
       /\ claims < 9 => status = "playing" /\ E2ECanMove
       /\ claims <= 9
       /\ claims = 9 =>
            /\ status = "finished"
            /\ lastOp = "claimCard"
            /\ players[first] = WinIntegrity
            /\ winner = Some(first)
            /\ win_reason = "reached_10_points"

\* scenario A has run to its end
C24_Witness ==
  /\ memory_deck = authenticDeck
  /\ status = "finished"
  /\ Len(revealed_real_memories) = 9
  /\ winner = Some(order_players[1])

\* C25 (scenario B): with the 15-card deck alternating authentic +2 and
\* corrupted -2, both players at 0 and every player selecting index 0 and
\* claiming on their turn, the match ends because the second player is driven
\* to the lower threshold: the first player is the winner and the reason is
\* opponent_defeated.
C25_ScenarioB ==
  (memory_deck = mixedDeck /\ status = "finished") =>
    /\ winner = Some(order_players[1])
    /\ win_reason = "opponent_defeated"

\* neither winner nor win_reason is set
NoWinnerRecorded == IsNull(winner) /\ win_reason = ""

\* C26 (invariant): winner and win_reason are set only in finished states: in
\* every state with status waiting, intro or playing both are unset, and a step
\* that changes either of them is the step that takes status to finished.
C26_WinnerOnlyWhenFinished ==
  /\ [](status \in {"waiting", "intro", "playing"} => NoWinnerRecorded)
  /\ [][(winner' # winner \/ win_reason' # win_reason) =>
          /\ NoWinnerRecorded
          /\ status # "finished"
          /\ status' = "finished"
          /\ ~IsNull(winner')
          /\ win_reason' # ""]_vars

\* a match a resolving transition finished by a defeat, with its winner and
\* reason recorded
C26_Witness ==
  /\ status = "finished"
  /\ lastOp \in ResolvingOps
  /\ ~IsNull(winner)
  /\ win_reason = "opponent_defeated"

\* sequence s is the first Len(s) entries of sequence t
IsPrefix(s, t) ==
  /\ Len(s) <= Len(t)
  /\ \A k \in 1..Len(s) : t[k] = s[k]

\* C27 (safety): the revealed-memories log of a room is append-only: no step
\* removes or reorders its entries; a resolving action, whichever of the three,
\* appends exactly the resolved card's memory when that card is authentic and
\* nothing otherwise; no other step changes the log.
C27_RevealedAppendOnly ==
  [][(exists /\ exists' /\ lastOp' # "createRoom") =>
       /\ IsPrefix(revealed_real_memories, revealed_real_memories')
       /\ IF lastOp' \in ResolvingOps
            THEN /\ ~IsNull(current_card)
                 /\ IF Val(current_card).authenticity = "authentic"
                      THEN /\ Len(revealed_real_memories') =
                                Len(revealed_real_memories) + 1
                           /\ revealed_real_memories'[Len(revealed_real_memories')] =
                                Val(current_card).memory
                      ELSE revealed_real_memories' = revealed_real_memories
            ELSE revealed_real_memories' = revealed_real_memories
    ]_vars

\* at least three cards were resolved and only one of them, an authentic one,
\* added its memory to the log
C27_Witness ==
  /\ exists
  /\ lastOp \in ResolvingOps
  /\ Len(revealed_real_memories) = 1
  /\ cards_drawn - Len(table_cards) >= 3

\* the index passed to refreshTableCards names a slot of the table passed
ValidIndex ==
  /\ Val(selected_card_index) >= 0
  /\ Val(selected_card_index) < Len(table_cards)

\* C28 (refreshTableCards, valid index): with cardsDrawn < len(deck) the call
\* returns the table with the slot at selectedIndex replaced in place by
\* deck[cardsDrawn], every other slot unchanged and in the same position, and
\* newCardsDrawn = cardsDrawn + 1; otherwise it returns the table with that
\* slot removed, the remaining cards in their original order, and
\* newCardsDrawn = cardsDrawn.
C28_RefreshValidIndex ==
  [][ValidIndex =>
       LET slot == Val(selected_card_index) + 1
       IN /\ lastOp' = "refreshTableCards"
          /\ IF cards_drawn < Len(memory_deck)
               THEN /\ Len(table_cards') = Len(table_cards)
                    /\ table_cards'[slot] = memory_deck[cards_drawn + 1]
                    /\ \A k \in 1..Len(table_cards) :
                         k # slot => table_cards'[k] = table_cards[k]
                    /\ cards_drawn' = cards_drawn + 1
               ELSE /\ Len(table_cards') = Len(table_cards) - 1
                    /\ \A k \in 1..Len(table_cards') :
                         table_cards'[k] = IF k < slot THEN table_cards[k]
                                                       ELSE table_cards[k + 1]
                    /\ cards_drawn' = cards_drawn
    ]_allVars

\* a call returned a table whose middle slot holds a newly drawn card between
\* two cards that differ from it and from each other
C28_Witness ==
  /\ lastOp = "refreshTableCards"
  /\ selected_card_index = Some(1)
  /\ Len(table_cards) = TableSize
  /\ cards_drawn > 0
  /\ table_cards[2] = memory_deck[cards_drawn]
  /\ table_cards[1] # table_cards[2]
  /\ table_cards[3] # table_cards[2]
  /\ table_cards[1] # table_cards[3]

\* C29 (refreshTableCards, invalid index): a call with selectedIndex < 0 or
\* selectedIndex >= len(tableCards) fails with the invalid-index error and
\* leaves the tableCards it was given and cardsDrawn as they were.
C29_RefreshInvalidIndex ==
  [][~ValidIndex =>
       /\ lastOp' = "refreshTableCards threw"
       /\ table_cards' = table_cards
       /\ cards_drawn' = cards_drawn
    ]_allVars

\* a call with the index one past the last slot of a full table has thrown
C29_Witness ==
  /\ lastOp = "refreshTableCards threw"
  /\ selected_card_index = Some(Len(table_cards))
  /\ Len(table_cards) = TableSize
  /\ cards_drawn < Len(memory_deck)

\* the 0-based indexes of the deck's cards of an authenticity
IndexesOf(authenticity) ==
  {k - 1 : k \in {j \in 1..Len(memory_deck) :
                    memory_deck[j].authenticity = authenticity}}

\* C30 (generateGameDeck): every deck it returns, whatever the random choices,
\* has exactly 15 cards, of which exactly 8 are authentic, 6 corrupted and 1
\* fatalGlitch; each card's value is the configured point value of its
\* authenticity (authentic 1, corrupted -1, fatalGlitch -10); and every
\* fatalGlitch card is at an index of 7 or more.
C30_GeneratedDeck ==
  lastOp = "generateGameDeck" =>
    /\ Len(memory_deck) = 15
    /\ Cardinality(IndexesOf("authentic")) = 8
    /\ Cardinality(IndexesOf("corrupted")) = 6
    /\ Cardinality(IndexesOf("fatalGlitch")) = 1
    /\ \A k \in 1..Len(memory_deck) :
         memory_deck[k].value =
           CASE memory_deck[k].authenticity = "authentic" -> 1
             [] memory_deck[k].authenticity = "corrupted" -> -1
             [] memory_deck[k].authenticity = "fatalGlitch" -> -10
    /\ \A index \in IndexesOf("fatalGlitch") : index >= 7

\* a generated deck with its fatal glitch at the earliest index allowed, after
\* seven cards that mix authentic and corrupted
C30_Witness ==
  /\ lastOp = "generateGameDeck"
  /\ IndexesOf("fatalGlitch") = {7}
  /\ \E a \in IndexesOf("authentic"), c \in IndexesOf("corrupted") : a < 7 /\ c < 7

\* C31 (error handling): with a pool of fewer memories than the configured
\* total of cards, generateGameDeck fails and returns no deck, and a createRoom
\* that depends on it fails: no room document is created and the user's
\* current room is not changed.
C31_SmallPoolFails ==
  [][poolSize < totalCards =>
       /\ lastOp' \in {"generateGameDeck threw", "createRoom threw"}
       /\ memory_deck' = <<>>
       /\ ~exists'
       /\ UNCHANGED room
       /\ current_room' = current_room
    ]_allVars

\* createRoom has thrown on a pool one memory short of a deck
C31_Witness ==
  /\ poolSize = totalCards - 1
  /\ lastOp = "createRoom threw"
  /\ ~exists
  /\ \A u \in Users : IsNull(current_room[u])

\* the room is waiting with exactly two players and this user created it
MayStart(userId) ==
  /\ exists
  /\ status = "waiting"
  /\ Cardinality(DOMAIN players) = 2
  /\ Len(order_players) > 0
  /\ order_players[1] = userId

\* C32 (startGame): it succeeds only when status = waiting, the room has
\* exactly 2 players and the requester is the creator, the first entry of
\* order_players; on success it changes status to intro and nothing else of
\* the room or of the users; in every other case the room is left unchanged.
C32_StartGame ==
  [][(room' # room) =>
       /\ \A u \in Users :
            startGame(u) =>
              /\ MayStart(u)
              /\ status' = "intro"
              /\ UNCHANGED <<exists, players, order_players, turn, memory_deck,
                             current_card, table_cards, cards_drawn, turn_state,
                             selected_card_index, current_multiplier,
                             card_initiator, revealed_real_memories, winner,
                             win_reason, current_room>>
       /\ (status = "waiting" /\ status' = "intro") => lastOp' = "startGame"
    ]_vars

\* the creator has started the game of a room of two
C32_Witness ==
  /\ lastOp = "startGame"
  /\ status = "intro"
  /\ Cardinality(DOMAIN players) = 2
  /\ \A u \in DOMAIN players : players[u] = 0

\* C33 (completeIntro): it succeeds only when status = intro and moves it to
\* playing, changing nothing else; every match that enters playing does so
\* with turn = 0, turn_state = draw, current_card unset, current_multiplier = 1,
\* table_cards equal to the first three cards of memory_deck and
\* cards_drawn = 3.
C33_EntersPlaying ==
  [][/\ (room' # room /\ completeIntro) =>
          /\ status = "intro"
          /\ status' = "playing"
          /\ UNCHANGED <<exists, players, order_players, turn, memory_deck,
                         current_card, table_cards, cards_drawn, turn_state,
                         selected_card_index, current_multiplier, card_initiator,
                         revealed_real_memories, winner, win_reason, current_room>>
     /\ (status # "playing" /\ status' = "playing") =>
          /\ lastOp' = "completeIntro"
          /\ status = "intro"
          /\ turn' = 0
          /\ turn_state' = "draw"
          /\ IsNull(current_card')
          /\ current_multiplier' = 1
          /\ Len(memory_deck') >= 3
          /\ Len(table_cards') = 3
          /\ \A k \in 1..3 : table_cards'[k] = memory_deck'[k]
          /\ cards_drawn' = 3
    ]_vars

\* a match has just entered playing
C33_Witness ==
  /\ lastOp = "completeIntro"
  /\ status = "playing"
  /\ turn = 0
  /\ Len(table_cards) = 3

\* the set of entries of a sequence
Range(s) == {s[k] : k \in 1..Len(s)}

\* joinRoom by this user is not refused by the room as it is
MayJoin(userId) ==
  /\ exists
  /\ status = "waiting"
  /\ Cardinality(DOMAIN players) < 2
  /\ userId \notin DOMAIN players

\* the step adds this user to the room and keeps everyone already in it
JoinKept(userId) ==
  /\ DOMAIN players' = DOMAIN players \cup {userId}
  /\ \A v \in DOMAIN players : players'[v] = players[v]
  /\ players'[userId] = 0
  /\ order_players' = Append(order_players, userId)
  /\ current_room'[userId] = Some(RoomCode)

LeaveKeepsTheRest ==
  UNCHANGED <<exists, turn, memory_deck, current_card, table_cards, cards_drawn,
              turn_state, selected_card_index, current_multiplier,
              card_initiator, revealed_real_memories, winner, win_reason>>

\* C35 (leaveRoom): when the last player leaves a waiting room the room is
\* deleted; when the last player leaves a room in any other status the room is
\* kept and its status becomes finished; when another player remains only
\* players and order_players change and the status stays; in every case the
\* current room of the user who leaves is cleared.
C35_LeaveRoom ==
  [][lastOp' = "leaveRoom" =>
       \E u \in Users :
         /\ leaveRoom(u)
         /\ IsNull(current_room'[u])
         /\ (exists /\ u \in DOMAIN players) =>
              IF DOMAIN players = {u}
                THEN IF status = "waiting"
                       THEN ~exists'
                       ELSE /\ status' = "finished"
                            /\ DOMAIN players' = {}
                            /\ order_players' = <<>>
                            /\ LeaveKeepsTheRest
                ELSE /\ status' = status
                     /\ DOMAIN players' = DOMAIN players \ {u}
                     /\ \A v \in DOMAIN players' : players'[v] = players[v]
                     /\ order_players' = FilterOut(order_players, u)
                     /\ LeaveKeepsTheRest
    ]_vars

\* the last player left a started match: the room is kept, finished, with
\* nobody in it and no winner
C35_Witness ==
  /\ lastOp = "leaveRoom"
  /\ exists
  /\ status = "finished"
  /\ DOMAIN players = {}
  /\ IsNull(winner)

\* the deck cards drawn so far
DrawnCards == {memory_deck[k] : k \in 1..cards_drawn}

\* C36 (card accounting): in every state of a started match the table holds
\* exactly the drawn deck cards that are not yet resolved, so the length of
\* tableCards plus the number of resolved cards is cardsDrawn, no deck
\* position is on the table twice, and no deck card has been resolved more
\* than once.
C36_CardAccounting ==
  (exists /\ status \in {"intro", "playing", "finished"}) =>
    /\ cards_drawn <= Len(memory_deck)
    /\ \A i, j \in 1..Len(memory_deck) :
         memory_deck[i] = memory_deck[j] => i = j
    /\ BagToSet(resolved) \subseteq DrawnCards
    /\ Range(table_cards) = DrawnCards \ BagToSet(resolved)
    /\ Len(table_cards) + BagCardinality(resolved) = cards_drawn
    /\ \A i, j \in 1..Len(table_cards) :
         table_cards[i] = table_cards[j] => i = j
    /\ \A c \in BagToSet(resolved) : CopiesIn(c, resolved) = 1

\* the deck is exhausted, two of its cards are resolved and the match goes on
\* with the two that are left
C36_Witness ==
  /\ status = "playing"
  /\ cards_drawn = Len(memory_deck)
  /\ BagCardinality(resolved) = 2
  /\ Len(table_cards) = 2

\* C37 (selected index): in every playing state whose turnState is decide or
\* opponent_decide, selectedCardIndex is a valid index of tableCards and the
\* card at that index is currentCard, so the table refresh inside claimCard,
\* opponentClaimCard and opponentRejectBack never fails with invalid-index.
C37_SelectedIndexValid ==
  (exists /\ status = "playing" /\ turn_state \in {"decide", "opponent_decide"}) =>
    /\ ~IsNull(selected_card_index)
    /\ ~IsNull(current_card)
    /\ selected_card_index[1] \in 0..(Len(table_cards) - 1)
    /\ table_cards[selected_card_index[1] + 1] = current_card[1]
    /\ refreshSelected.ok
    /\ \A u \in Users :
         /\ claimCardError(u) # "invalid_index"
         /\ opponentClaimCardError(u) # "invalid_index"
         /\ opponentRejectBackError(u) # "invalid_index"

\* the opponent decides on the last card of a table of two, the deck being
\* exhausted
C37_Witness ==
  /\ status = "playing"
  /\ turn_state = "opponent_decide"
  /\ selected_card_index = <<1>>
  /\ Len(table_cards) = 2

\* the calls of this kind that this user could make with success
CanDo(op, userId) == \E i \in CardIndexes : CallError(op, userId, i) = ""

\* the game transitions this user could make with success
OpenTo(userId) == {op \in GameOps : CanDo(op, userId)}

\* C38 (one mover): in every playing state with two players and a non-empty
\* table exactly one player has a transition that can succeed: the player at
\* orderPlayers[turn] in draw (selectCard) and in decide (claimCard and
\* rejectCard, as cardInitiator), the other player in opponent_decide
\* (opponentClaimCard and opponentRejectBack); no transition of anybody else
\* can succeed.
C38_OneMover ==
  (/\ exists
   /\ status = "playing"
   /\ Cardinality(DOMAIN players) = 2
   /\ Len(table_cards) > 0) =>
    /\ turn \in 0..1
    /\ Len(order_players) = 2
    /\ LET current == order_players[turn + 1]
           other == order_players[2 - turn]
           mover == IF turn_state = "opponent_decide" THEN other ELSE current
       IN /\ current # other
          /\ \A u \in Users : u # mover => OpenTo(u) = {}
          /\ turn_state = "draw" => OpenTo(mover) = {"selectCard"}
          /\ turn_state = "decide" =>
               /\ card_initiator = <<mover>>
               /\ OpenTo(mover) = {"claimCard", "rejectCard"}
          /\ turn_state = "opponent_decide" =>
               /\ card_initiator = <<current>>
               /\ OpenTo(mover) = {"opponentClaimCard", "opponentRejectBack"}

\* the second player's card went to the first player, who alone can answer
C38_Witness ==
  /\ status = "playing"
  /\ Cardinality(DOMAIN players) = 2
  /\ turn = 1
  /\ turn_state = "opponent_decide"
  /\ OpenTo(order_players[1]) = {"opponentClaimCard", "opponentRejectBack"}

\* C39 (players and order): in every state of an existing room, whatever the
\* interleaving of createRoom, joinRoom and leaveRoom, the keys of players are
\* exactly the entries of orderPlayers, and orderPlayers has no duplicates and
\* at most 2 entries.
C39_PlayersMatchOrder ==
  exists =>
    /\ DOMAIN players = Range(order_players)
    /\ \A i, j \in 1..Len(order_players) :
         order_players[i] = order_players[j] => i = j
    /\ Len(order_players) <= 2

\* somebody left a waiting room of two: the one who stays is alone in
\* players and in orderPlayers
C39_Witness ==
  /\ lastOp = "leaveRoom"
  /\ exists
  /\ status = "waiting"
  /\ Len(order_players) = 1
  /\ DOMAIN players = {order_players[1]}

\* C40 (two players while active): a room whose status is intro or playing
\* has exactly two players; no sequence of lifecycle calls, leaveRoom during
\* intro or playing included, leads to an intro or playing room with fewer.
\* leaveRoom keeps the status when a player remains, so this fails.
C40_TwoPlayersWhileActive ==
  (exists /\ status \in {"intro", "playing"}) =>
    Cardinality(DOMAIN players) = 2
====
